---- MODULE Spec2Model ----
(***************************************************************************)
(* Room state machine of DebAItor (src/server.js): the in-memory room map, *)
(* the request handlers of the room API and their suspension points.      *)
(*                                                                         *)
(* The specifications share the handler definitions:                       *)
(*   Spec      no store and no AI key: every handler runs to completion    *)
(*             before the next request is served;                          *)
(*   SpecHost  the host's operations on one room, with every id a request  *)
(*             can carry as the secret;                                    *)
(*   SpecHands Spec with the raise-hand and lower-hand requests;           *)
(*   SpecTurns the turn of one room, with raise-hand and lower-hand;       *)
(*   SpecAsync one process lifetime: handlers are cut at the awaits on the *)
(*             store writes and on the AI collaborator, and other requests *)
(*             run in between;                                             *)
(*   SpecCold  restart followed by overlapping requests that miss the      *)
(*             cache and wait for the room to be read from the store;      *)
(*   SpecStore one room with the store modelled and every write landing;   *)
(*   SpecFail  the same with the writes of a handler landing or failing;   *)
(*   SpecScore calculateFinalScore applied to every ScoreSet with integer  *)
(*             dimensions and every mode;                                  *)
(*   SpecResults the results of end and the balanceScore of analytics for  *)
(*             one room, in join order or read back from the store;        *)
(*   SpecInterview the interview session engine (src/prompts/engine.js)    *)
(*             with the start and respond handlers cut at their awaits;    *)
(*   SpecInterviewShort SpecInterview with fewer respond requests;         *)
(*   SpecInterviewSeq the interview API with one request at a time;        *)
(*   SpecReload one room with the store modelled, restarts and the reload  *)
(*             of the room from the store;                                 *)
(*   SpecEndFair one room with overlapping handlers and weak fairness of   *)
(*             the continuation of end.                                    *)
(***************************************************************************)
EXTENDS Integers, Sequences, FiniteSets, TLC

\* ------------------------------------------------------------------ bounds
MaxUuid == 3          \* uuidv4() calls per behaviour (host ids and participant ids)
MaxRound == 2         \* next-turn is not issued once currentRound reached it
MaxResponses == 2     \* responses stored per room (Spec)
MaxResponsesAsync == 1 \* responses stored per room (SpecAsync)
MaxPending == 2       \* handlers suspended at an await at the same time
MaxHands == 1         \* raise-hand is not issued once raisedHands is this long
MaxInterviewPending == 2 \* interview handlers suspended at an await at the same time
MaxRespondCalls == 8  \* respond requests that get past the entry checks
MaxShortCalls == 5    \* respond requests per behaviour (SpecInterviewShort)
MaxTurnResponses == 1 \* responses stored per room (SpecTurns)

\* --------------------------------------------------------------- constants
NULL == -1            \* JavaScript null
UNDEFINED == -2       \* JavaScript undefined (turnOrder[0] of an empty array)
NoId == 0             \* an id in a request body that no uuidv4() call produced

WAITING == "waiting"
COLLECTING == "collecting"
EVALUATING == "evaluating"
RESULTS == "results"
STATES == {WAITING, COLLECTING, EVALUATING, RESULTS}

\* generateRoomCode(): the codes the generator can return (one, so that a
\* second create collides with the first)
GenCodes == {"ABC234"}
\* codes as they arrive in the URL of a request (lower case: the handlers
\* upper-case them; before the first create the code names no room)
ReqCodes == {"abc234"}

\* String.prototype.toUpperCase on the request codes
toUpperCase(s) == IF s = "abc234" THEN "ABC234" ELSE s

VARIABLES
  memoryRooms,    \* Map roomCode -> room object (the process-wide cache)
  fsRooms,        \* the `rooms` collection of the persistent store
  uuidCount,      \* number of uuidv4() values handed out so far
  USE_FIRESTORE,  \* persistent store configured (fixed at process start)
  USE_MOCK_AI,    \* no AI key: mock transcript and evaluation (fixed at start)
  pending,        \* handlers suspended at an await: slot -> continuation
  lastRes,        \* HTTP status of the response sent last (0: none sent yet)
  turnSubmits,    \* history: responses appended since currentTurn was last set
  argScores,      \* calculateFinalScore: the `scores` argument of the call
  argMode,        \* calculateFinalScore: the `mode` argument of the call
  retFinalScore,  \* calculateFinalScore: the value returned (NULL: not called yet)
  argRoom,        \* end, analytics: the room getRoom returned (mode, participants)
  joined,         \* history: the ids of argRoom's participants in the order they joined
  endResponse,    \* end: whether the response was sent, and its results
  balanceScore,   \* analytics: the balanceScore of the response (NULL: not called yet)
  interviewSessions, \* engine.js: Map sessionId -> interview session
  interviewPending,  \* interview handlers suspended at an await on the AI
  interviewRes,      \* what the interview response sent last said ("none": none sent)
  respondCalls,      \* history: respond requests that got past the entry checks
  answersRecorded    \* history: addUserMessage calls so far

roomVars == <<memoryRooms, fsRooms, uuidCount, USE_FIRESTORE, USE_MOCK_AI, pending,
              lastRes, turnSubmits>>
scoreVars == <<argScores, argMode, retFinalScore>>
\* what no request handler of the room API touches
resultVars == <<argRoom, joined, endResponse, balanceScore>>
interviewVars == <<interviewSessions, interviewPending, interviewRes, respondCalls,
                   answersRecorded>>
otherVars == <<scoreVars, resultVars, interviewVars>>

vars == <<roomVars, otherVars>>

\* ------------------------------------------------------------ sequences
RECURSIVE filter(_, _)
\* Array.prototype.filter(id => id !== x)
filter(s, x) ==
  IF s = <<>> THEN <<>>
  ELSE IF Head(s) = x THEN filter(Tail(s), x)
       ELSE <<Head(s)>> \o filter(Tail(s), x)

Range(s) == {s[i] : i \in 1..Len(s)}

\* Array.prototype.includes
includes(s, x) == x \in Range(s)

\* Array.prototype.indexOf, 0-based, -1 when absent
indexOf(s, x) ==
  IF x \in Range(s) THEN (CHOOSE i \in 1..Len(s) : s[i] = x /\ \A j \in 1..(i-1) : s[j] # x) - 1
  ELSE -1

\* s[i] with a 0-based index; undefined past the end
at(s, i) == IF i >= 0 /\ i < Len(s) THEN s[i + 1] ELSE UNDEFINED

\* Object.assign(room, updates)
ObjectAssign(room, updates) ==
  [f \in DOMAIN room |-> IF f \in DOMAIN updates THEN updates[f] ELSE room[f]]

\* Map.prototype.delete
MapDelete(m, k) == IF DOMAIN m \ {k} = {} THEN <<>> ELSE [x \in DOMAIN m \ {k} |-> m[x]]

\* Map.prototype.set
MapSet(m, k, v) == [x \in DOMAIN m \cup {k} |-> IF x = k THEN v ELSE m[x]]

\* ------------------------------------------------------- storage helpers
\* has(rooms, c): getRoom finds the room (memory cache)
has(rooms, roomCode) == roomCode \in DOMAIN rooms

\* faulty updateRoomData: the cache is left to the store
updateRoomData_StoreOnly(rooms, roomCode, updates) == rooms

\* updateRoomData: the part that runs before its await (memory cache)
updateRoomData(rooms, roomCode, updates) ==
  IF has(rooms, roomCode)
  THEN [rooms EXCEPT ![roomCode] = ObjectAssign(@, updates)]
  ELSE rooms

\* saveRoom: memoryRooms.set(roomCode, roomData)
saveRoom(rooms, roomCode, roomData) == MapSet(rooms, roomCode, roomData)

\* addParticipantToRoom: participants.set(id, {responses: []}), turnOrder.push(id)
addParticipantToRoom(rooms, roomCode, participantId) ==
  IF has(rooms, roomCode)
  THEN [rooms EXCEPT ![roomCode] =
          [@ EXCEPT !.participants = MapSet(@, participantId, [responses |-> <<>>]),
                    !.turnOrder = Append(@, participantId)]]
  ELSE rooms

\* addArgumentToRoom: participant.responses.push(argumentData) when the
\* participant is (still) in the room
addArgumentToRoom(rooms, roomCode, participantId, argumentData) ==
  IF has(rooms, roomCode) /\ participantId \in DOMAIN rooms[roomCode].participants
  THEN [rooms EXCEPT ![roomCode].participants[participantId].responses =
          Append(@, argumentData)]
  ELSE rooms

\* faulty verifyHost: a request that carries no secret passes
verifyHost_MissingOk(room, hostId) == hostId = NoId \/ room.hostId = hostId

\* verifyHost: `room && room.hostId === hostId`
verifyHost(room, hostId) == room.hostId = hostId

\* ------------------------------------------------------------- handlers
\* POST /api/rooms: the room object of a new room
newRoomData(hostId) ==
  [ hostId       |-> hostId,
    participants |-> <<>>,
    currentTurn  |-> NULL,
    turnOrder    |-> <<>>,
    raisedHands  |-> <<>>,
    currentRound |-> 0,
    status       |-> WAITING,
    locked       |-> FALSE ]

\* faulty join: the locked flag is not looked at
joinCheck_NoLock(rooms, roomCode, nameOk) ==
  IF ~nameOk THEN 400
  ELSE IF ~has(rooms, roomCode) THEN 404
  ELSE IF rooms[roomCode].status = "ended" \/ rooms[roomCode].status = RESULTS THEN 400
  ELSE 0

\* join: the checks before the participant is added; 0 = accepted
joinCheck(rooms, roomCode, nameOk) ==
  IF ~nameOk THEN 400
  ELSE IF ~has(rooms, roomCode) THEN 404
  ELSE IF rooms[roomCode].status = "ended" \/ rooms[roomCode].status = RESULTS THEN 400
  ELSE IF rooms[roomCode].locked THEN 403
  ELSE 0

\* lock: the checks; 0 = accepted
lockCheck(rooms, roomCode, hostId) ==
  IF ~has(rooms, roomCode) THEN 404
  ELSE IF ~verifyHost(rooms[roomCode], hostId) THEN 403
  ELSE 0

\* lock: `lock !== false`
lockUpdates(lock) == [locked |-> (lock # FALSE)]

\* remove-participant: the checks; 0 = accepted
removeCheck(rooms, roomCode, hostId, participantId) ==
  IF ~has(rooms, roomCode) THEN 404
  ELSE IF ~verifyHost(rooms[roomCode], hostId) THEN 403
  ELSE IF participantId \notin DOMAIN rooms[roomCode].participants THEN 404
  ELSE 0

\* remove-participant: the updates object sent to updateRoomData when the
\* store is configured, computed from the room object after the memory update
removeUpdates(room, participantId) ==
  LET newTurnOrder == filter(room.turnOrder, participantId) IN
  [turnOrder   |-> newTurnOrder,
   currentTurn |-> IF room.currentTurn = participantId
                   THEN (IF Len(newTurnOrder) > 0 THEN newTurnOrder[1] ELSE NULL)
                   ELSE room.currentTurn]

\* faulty remove-participant: currentTurn is left on the removed participant
removeParticipant_KeepTurn(room, participantId) ==
  [room EXCEPT
     !.participants = MapDelete(@, participantId),
     !.turnOrder = filter(room.turnOrder, participantId)]

\* remove-participant: the update of the room object in memory
removeParticipant(room, participantId) ==
  LET newTurnOrder == filter(room.turnOrder, participantId) IN
  [room EXCEPT
     !.participants = MapDelete(@, participantId),
     !.turnOrder = newTurnOrder,
     !.currentTurn = IF room.currentTurn = participantId
                     THEN (IF Len(newTurnOrder) > 0 THEN newTurnOrder[1] ELSE NULL)
                     ELSE @]

\* start: the checks; 0 = accepted
startCheck(rooms, roomCode) ==
  IF ~has(rooms, roomCode) THEN 404
  ELSE IF Len(rooms[roomCode].turnOrder) = 0 THEN 400
  ELSE 0

\* faulty start: the round is not set
startUpdates_NoRound(room) ==
  [status |-> COLLECTING, currentTurn |-> at(room.turnOrder, 0)]

\* start: the updates object
startUpdates(room) ==
  [status |-> COLLECTING, currentRound |-> 1, currentTurn |-> at(room.turnOrder, 0)]

\* next-turn: the checks; 0 = accepted
nextTurnCheck(rooms, roomCode) ==
  IF ~has(rooms, roomCode) THEN 404
  ELSE IF rooms[roomCode].status # COLLECTING THEN 400
  ELSE 0

\* faulty next-turn: wrapping to the head of turnOrder does not count a round
nextTurnUpdates_NoWrap(room) ==
  LET currentIndex == indexOf(room.turnOrder, room.currentTurn)
      nextIndex == currentIndex + 1
      currentTurn == IF nextIndex >= Len(room.turnOrder) THEN at(room.turnOrder, 0)
                     ELSE at(room.turnOrder, nextIndex)
  IN [currentRound |-> room.currentRound,
      currentTurn  |-> currentTurn,
      raisedHands  |-> filter(room.raisedHands, currentTurn)]

\* next-turn: the updates object
nextTurnUpdates(room) ==
  LET currentIndex == indexOf(room.turnOrder, room.currentTurn)
      nextIndex == currentIndex + 1
      wraps == nextIndex >= Len(room.turnOrder)
      currentTurn == IF wraps THEN at(room.turnOrder, 0) ELSE at(room.turnOrder, nextIndex)
  IN [currentRound |-> IF wraps THEN room.currentRound + 1 ELSE room.currentRound,
      currentTurn  |-> currentTurn,
      raisedHands  |-> filter(room.raisedHands, currentTurn)]

\* faulty assign-turn: the status of the room is not checked
assignTurnCheck_AnyStatus(rooms, roomCode, participantId) ==
  IF ~has(rooms, roomCode) THEN 404
  ELSE IF participantId \notin DOMAIN rooms[roomCode].participants THEN 404
  ELSE 0

\* assign-turn: the checks; 0 = accepted
assignTurnCheck(rooms, roomCode, participantId) ==
  IF ~has(rooms, roomCode) THEN 404
  ELSE IF rooms[roomCode].status # COLLECTING THEN 400
  ELSE IF participantId \notin DOMAIN rooms[roomCode].participants THEN 404
  ELSE 0

\* faulty assign-turn: the hand of the new holder stays raised
assignTurnUpdates_KeepsHands(room, participantId) ==
  [currentTurn |-> participantId, raisedHands |-> room.raisedHands]

\* assign-turn: the updates object
assignTurnUpdates(room, participantId) ==
  [currentTurn |-> participantId, raisedHands |-> filter(room.raisedHands, participantId)]

\* faulty raise-hand: the status of the room is not checked
raiseHandCheck_AnyStatus(rooms, roomCode) ==
  IF ~has(rooms, roomCode) THEN 404 ELSE 0

\* raise-hand: the checks; 0 = accepted
raiseHandCheck(rooms, roomCode) ==
  IF ~has(rooms, roomCode) THEN 404
  ELSE IF rooms[roomCode].status # COLLECTING THEN 400
  ELSE 0

\* raise-hand: the array after the push (the room's own array is pushed to)
raiseHandUpdates(room, participantId) ==
  [raisedHands |-> IF includes(room.raisedHands, participantId)
                   THEN room.raisedHands
                   ELSE Append(room.raisedHands, participantId)]

\* lower-hand: the updates object
lowerHandUpdates(room, participantId) ==
  [raisedHands |-> filter(room.raisedHands, participantId)]

\* end: the first updateRoomData
endUpdates1 == [status |-> EVALUATING, currentTurn |-> NULL]

\* faulty end: the last update leaves the room evaluating
endUpdates2_StaysEvaluating == [status |-> EVALUATING]

\* end: the second updateRoomData
endUpdates2 == [status |-> RESULTS]

\* faulty submit: the turn holder is not checked
submitCheck_NoTurn(rooms, roomCode, participantId, hasFile) ==
  IF ~has(rooms, roomCode) THEN 404
  ELSE IF rooms[roomCode].status # COLLECTING THEN 400
  ELSE IF participantId \notin DOMAIN rooms[roomCode].participants THEN 404
  ELSE IF ~hasFile THEN 400
  ELSE 0

\* submit: the checks before the audio is processed; 0 = accepted
submitCheck(rooms, roomCode, participantId, hasFile) ==
  IF ~has(rooms, roomCode) THEN 404
  ELSE IF rooms[roomCode].status # COLLECTING THEN 400
  ELSE IF rooms[roomCode].currentTurn # participantId THEN 400
  ELSE IF participantId \notin DOMAIN rooms[roomCode].participants THEN 404
  ELSE IF ~hasFile THEN 400
  ELSE 0

\* submit: argumentData, built from the room object after the AI calls
argumentData(room) == [round |-> room.currentRound]

\* -------------------------------------------------------------- scoring
\* JavaScript numbers are kept exact, as integers in units of 1/Scale (60 is
\* a multiple of 10, for the tenths Math.round(x * 10) / 10 returns, and of
\* every count of responses an average is taken over). IEEE rounding is not
\* modelled: at an exact tie (x.x5) the double can fall on either side.
Scale == 60
Num(n) == n * Scale

VALID_MODES == {"debate", "classroom", "panel", "meeting"}

\* faulty MODE_WEIGHTS: the debate weights do not add up to 1
MODE_WEIGHTS_Unnormalized ==
  [ debate    |-> [logic |-> 40, clarity |-> 20, relevance |-> 30, emotionalBias |-> 15],
    classroom |-> [logic |-> 20, clarity |-> 35, relevance |-> 35, emotionalBias |-> 10],
    panel     |-> [logic |-> 30, clarity |-> 25, relevance |-> 25, emotionalBias |-> 20],
    meeting   |-> [logic |-> 25, clarity |-> 30, relevance |-> 35, emotionalBias |-> 10] ]

\* MODE_WEIGHTS, the weights in hundredths
MODE_WEIGHTS ==
  [ debate    |-> [logic |-> 35, clarity |-> 20, relevance |-> 30, emotionalBias |-> 15],
    classroom |-> [logic |-> 20, clarity |-> 35, relevance |-> 35, emotionalBias |-> 10],
    panel     |-> [logic |-> 30, clarity |-> 25, relevance |-> 25, emotionalBias |-> 20],
    meeting   |-> [logic |-> 25, clarity |-> 30, relevance |-> 35, emotionalBias |-> 10] ]

\* Math.round(x * 10) / 10 for x = n / (Scale * d); Math.round rounds half up
Round1(n, d) == ((20 * n + Scale * d) \div (2 * Scale * d)) * (Scale \div 10)

\* faulty calculateFinalScore: emotionalBias is not inverted
calculateFinalScore_NoInvert(scores, mode) ==
  LET w == IF mode \in DOMAIN MODE_WEIGHTS THEN MODE_WEIGHTS[mode] ELSE MODE_WEIGHTS.debate
  IN Round1(scores.logic * w.logic + scores.clarity * w.clarity
            + scores.relevance * w.relevance
            + scores.emotionalBias * w.emotionalBias, 100)

\* calculateFinalScore(scores, mode); `MODE_WEIGHTS[mode] || MODE_WEIGHTS.debate`
calculateFinalScore(scores, mode) ==
  LET w == IF mode \in DOMAIN MODE_WEIGHTS THEN MODE_WEIGHTS[mode] ELSE MODE_WEIGHTS.debate
  IN Round1(scores.logic * w.logic + scores.clarity * w.clarity
            + scores.relevance * w.relevance
            + (Num(10) - scores.emotionalBias) * w.emotionalBias, 100)

\* ------------------------------------------------------------ end results
\* The participants Map of a room is kept here as the sequence of its entries
\* [id, responses] in iteration order; a response carries its scores, and a
\* score that is missing is NULL.

\* `x || 5` on a score of a stored response
OrFive(x) == IF x = NULL \/ x = 0 THEN Num(5) ELSE x

RECURSIVE SumField(_, _)
\* responses.reduce((sum, r) => sum + (r.scores?.X || 5), 0)
SumField(responses, X) ==
  IF responses = <<>> THEN 0
  ELSE OrFive(Head(responses).scores[X]) + SumField(Tail(responses), X)

\* the entry end pushes for a participant without responses
SilentResult(id) ==
  [ id |-> id, participationStatus |-> "silent", totalResponses |-> 0,
    averageScore |-> 0, rawAverageScore |-> 0, rank |-> NULL ]

\* the entry end pushes for a participant with responses
ActiveResult(id, data, roomMode) ==
  LET argumentsCount == Len(data.responses)
      avgLogic == SumField(data.responses, "logic") \div argumentsCount
      avgClarity == SumField(data.responses, "clarity") \div argumentsCount
      avgRelevance == SumField(data.responses, "relevance") \div argumentsCount
      avgEmotionalBias == SumField(data.responses, "emotionalBias") \div argumentsCount
      averageScore == calculateFinalScore(
                        [logic |-> avgLogic, clarity |-> avgClarity,
                         relevance |-> avgRelevance, emotionalBias |-> avgEmotionalBias],
                        roomMode)
  IN [ id |-> id,
       participationStatus |-> IF argumentsCount > 0 THEN "active" ELSE "silent",
       totalResponses |-> argumentsCount,
       averageScore |-> Round1(averageScore, 1),
       rawAverageScore |-> Round1(avgLogic + avgClarity + avgRelevance
                                  + (Num(10) - avgEmotionalBias), 4),
       rank |-> NULL ]

\* faulty loop body of end: a participant without responses is scored as if
\* every dimension had its default
resultOf_NoSilentCase(id, data, roomMode) ==
  IF Len(data.responses) = 0
  THEN [SilentResult(id) EXCEPT !.averageScore = Num(5), !.rawAverageScore = Num(5)]
  ELSE ActiveResult(id, data, roomMode)

\* the body of the loop over room.participants in end
resultOf(id, data, roomMode) ==
  IF Len(data.responses) = 0
  THEN SilentResult(id)
  ELSE ActiveResult(id, data, roomMode)

\* r put behind the entries of the sorted s that do not score less
insertStable(s, r) ==
  LET k == Cardinality({i \in 1..Len(s) : s[i].averageScore >= r.averageScore})
  IN SubSeq(s, 1, k) \o <<r>> \o SubSeq(s, k + 1, Len(s))

\* r put before the entries of the sorted s that do not score more
insertBeforeEqual(s, r) ==
  LET k == Cardinality({i \in 1..Len(s) : s[i].averageScore > r.averageScore})
  IN SubSeq(s, 1, k) \o <<r>> \o SubSeq(s, k + 1, Len(s))

RECURSIVE sort_Unstable(_)
\* faulty sort: entries that compare equal come out in reverse
sort_Unstable(arr) ==
  IF arr = <<>> THEN <<>>
  ELSE insertBeforeEqual(sort_Unstable(SubSeq(arr, 1, Len(arr) - 1)),
                         arr[Len(arr)])

RECURSIVE sort(_)
\* arr.sort((a, b) => b.averageScore - a.averageScore); Array.prototype.sort
\* is stable
sort(arr) ==
  IF arr = <<>> THEN <<>>
  ELSE insertStable(sort(SubSeq(arr, 1, Len(arr) - 1)), arr[Len(arr)])

\* results of end: one entry per participant, sorted, rank = index + 1
endResults(room) ==
  LET roomMode == IF room.mode = "" THEN "debate" ELSE room.mode  \* room.mode || 'debate'
      pushed == [i \in 1..Len(room.participants) |->
                   resultOf(room.participants[i].id, room.participants[i], roomMode)]
      sorted == sort(pushed)
  IN [i \in 1..Len(sorted) |-> [sorted[i] EXCEPT !.rank = i]]

RECURSIVE totalArgumentsOf(_)
\* totalArguments of analytics: the sum of responses.length
totalArgumentsOf(participants) ==
  IF participants = <<>> THEN 0
  ELSE Len(Head(participants).responses) + totalArgumentsOf(Tail(participants))

RECURSIVE SumSquares(_)
SumSquares(participants) ==
  IF participants = <<>> THEN 0
  ELSE Len(Head(participants).responses) * Len(Head(participants).responses)
       + SumSquares(Tail(participants))

\* balanceScore of analytics. With n participants, T arguments and Q the sum
\* of their squared counts, stdDev / mean is the square root of
\* (n * Q - T * T) / (T * T); Math.round((1 - cv) * 100) is the r with
\* 199 - 2r < 200 * cv <= 201 - 2r, compared here in squares
analyticsBalanceScore(room) ==
  LET participantCount == Len(room.participants)
      totalArguments == totalArgumentsOf(room.participants)
      T2 == totalArguments * totalArguments
      D == participantCount * SumSquares(room.participants) - T2
      cv2 == IF D > T2 THEN T2 ELSE D
  IN IF participantCount = 0 THEN 0
     ELSE IF participantCount > 1 /\ totalArguments > 0
     THEN CHOOSE r \in 0..100 :
            /\ 40000 * cv2 <= (201 - 2 * r) * (201 - 2 * r) * T2
            /\ \/ 199 - 2 * r < 0
               \/ (199 - 2 * r) * (199 - 2 * r) * T2 < 40000 * cv2
     ELSE IF totalArguments = 0 THEN 0
     ELSE 100

\* ----------------------------------------------------- interview engine
\* engine.js. A message is kept as its role and, for its content, the number
\* of the message in the order of recording (as a string); the summary is a
\* string, empty for null (both are falsy where the code tests it).
MAX_QUESTIONS == 8

\* createSession: the session object
createSession ==
  [ messages |-> <<>>, fullTranscript |-> <<>>, conversationSummary |-> "",
    questionCount |-> 0, status |-> "active" ]

\* the message { role, content } recorded next in a session
Message(session, role) ==
  [role |-> role, content |-> ToString(Len(session.fullTranscript) + 1)]

\* addUserMessage
addUserMessage(session) ==
  [session EXCEPT !.messages = Append(@, Message(session, "user")),
                  !.fullTranscript = Append(@, Message(session, "user"))]

\* faulty addAssistantMessage: the session is closed one question late
addAssistantMessage_LateComplete(session) ==
  LET questionCount == session.questionCount + 1
  IN [session EXCEPT !.messages = Append(@, Message(session, "assistant")),
                     !.fullTranscript = Append(@, Message(session, "assistant")),
                     !.questionCount = questionCount,
                     !.status = IF questionCount > MAX_QUESTIONS THEN "complete" ELSE @]

\* addAssistantMessage
addAssistantMessage(session) ==
  LET questionCount == session.questionCount + 1
  IN [session EXCEPT !.messages = Append(@, Message(session, "assistant")),
                     !.fullTranscript = Append(@, Message(session, "assistant")),
                     !.questionCount = questionCount,
                     !.status = IF questionCount >= MAX_QUESTIONS THEN "complete" ELSE @]

\* faulty shouldSummarize: the buffer may hold four exchanges
shouldSummarize_AtEight(session) == Len(session.messages) > 8

\* shouldSummarize
shouldSummarize(session) == Len(session.messages) > 6

\* Array.prototype.slice(-6)
LastSix(arr) == IF Len(arr) > 6 THEN SubSeq(arr, Len(arr) - 5, Len(arr)) ELSE arr

\* buildSummarizationPayload: what the summarizer is asked to combine, the
\* stored summary and the messages older than the last six
buildSummarizationPayload(session) ==
  [summary  |-> session.conversationSummary,
   messages |-> SubSeq(session.messages, 1, Len(session.messages) - 6)]
NoPayload == [summary |-> "", messages |-> <<>>]

\* the summary the collaborator returns for a payload: it is identified by
\* the last message it covers
SummaryOf(payload) == payload.messages[Len(payload.messages)].content

\* faulty applySummarization: the transcript is trimmed with the messages
applySummarization_TrimsTranscript(session, summary) ==
  [session EXCEPT !.conversationSummary = summary,
                  !.messages = LastSix(@),
                  !.fullTranscript = LastSix(@)]

\* applySummarization, with the summary the collaborator returned
applySummarization(session, summary) ==
  [session EXCEPT !.conversationSummary = summary, !.messages = LastSix(@)]

\* faulty buildMessagePayload: every raw message is sent
buildMessagePayload_AllMessages(session) ==
  <<[role |-> "system", content |-> "systemPrompt"]>>
  \o (IF session.conversationSummary # ""
      THEN <<[role |-> "system", content |-> "CONVERSATION SUMMARY"]>> ELSE <<>>)
  \o session.messages

\* buildMessagePayload: system prompt, summary if there is one, the last six
\* messages
buildMessagePayload(session) ==
  <<[role |-> "system", content |-> "systemPrompt"]>>
  \o (IF session.conversationSummary # ""
      THEN <<[role |-> "system", content |-> "CONVERSATION SUMMARY"]>> ELSE <<>>)
  \o LastSix(session.messages)

\* ------------------------------------------------------ persistent store
\* A store entry: the room document and its two subcollections.
\* firebase.js createRoom: doc.set({...}) replaces the document; the
\* subcollections of an earlier room with the same code stay
fbCreateRoom(fs, roomCode, data) ==
  MapSet(fs, roomCode,
    [ doc |-> [ hostId       |-> data.hostId,
                status       |-> data.status,
                locked       |-> data.locked,
                currentTurn  |-> data.currentTurn,
                turnOrder    |-> data.turnOrder,
                currentRound |-> data.currentRound,
                raisedHands  |-> <<>> ],
      participants |-> IF has(fs, roomCode) THEN fs[roomCode].participants ELSE {},
      arguments    |-> IF has(fs, roomCode) THEN fs[roomCode].arguments ELSE <<>> ])

\* firebase.js updateRoom: doc.update(updates); fields whose value is
\* undefined are skipped (ignoreUndefinedProperties); fails on a missing doc
fbUpdateRoom(fs, roomCode, updates) ==
  IF has(fs, roomCode)
  THEN [fs EXCEPT ![roomCode].doc =
          [f \in DOMAIN @ |->
             IF f \in DOMAIN updates /\ ~(f = "currentTurn" /\ updates[f] = UNDEFINED)
             THEN updates[f] ELSE @[f]]]
  ELSE fs

\* firebase.js addParticipant
fbAddParticipant(fs, roomCode, participantId) ==
  IF has(fs, roomCode)
  THEN [fs EXCEPT ![roomCode].participants = @ \cup {participantId}]
  ELSE fs

\* firebase.js addArgument
fbAddArgument(fs, roomCode, participantId, data) ==
  IF has(fs, roomCode)
  THEN [fs EXCEPT ![roomCode].arguments =
          Append(@, [participantId |-> participantId, round |-> data.round])]
  ELSE fs

\* the orders in which a query can return n documents (documents come back
\* by document id, and the ids of arguments are random uuids)
Perms(n) == {f \in [1..n -> 1..n] : \A i, j \in 1..n : f[i] = f[j] => i = j}

\* firebase.js getRoom: the room object built from the document, the
\* participants subcollection and the arguments subcollection
fbGetRoom(fs, roomCode, perm) ==
  LET e == fs[roomCode]
      args == [i \in 1..Len(e.arguments) |-> e.arguments[perm[i]]]
      responsesOf(p) ==
        LET Mine(a) == a.participantId = p
            mine == SelectSeq(args, Mine)
        IN [i \in 1..Len(mine) |-> [round |-> mine[i].round]]
  IN [ hostId       |-> e.doc.hostId,
       participants |-> IF e.participants = {} THEN <<>>
                        ELSE [p \in e.participants |-> [responses |-> responsesOf(p)]],
       currentTurn  |-> e.doc.currentTurn,
       turnOrder    |-> e.doc.turnOrder,
       raisedHands  |-> e.doc.raisedHands,
       currentRound |-> e.doc.currentRound,
       status       |-> e.doc.status,
       locked       |-> e.doc.locked ]

\* server.js getRoom: the cache after the call (a miss reads the store and
\* caches the room)
getRoom(rooms, fs, useFirestore, roomCode, perm) ==
  IF has(rooms, roomCode) THEN rooms
  ELSE IF useFirestore /\ has(fs, roomCode)
       THEN MapSet(rooms, roomCode, fbGetRoom(fs, roomCode, perm))
       ELSE rooms

\* ------------------------------------------------------ requests, responses
\* flag: `lock` of a lock request, presence of the audio file of a submit
Req(op, code, pid, hostId, flag) ==
  [op |-> op, code |-> code, pid |-> pid, hostId |-> hostId, flag |-> flag]
NoReq == Req("none", "", NoId, NoId, FALSE)

\* ids a request body can carry: every id handed out so far, or a made-up one
ReqIds == 0..uuidCount

\* a handler suspended at an await
\*   stage 0: in getRoom, waiting for the store read (room: the room read)
\*   stage 1..3: after the handler's first, second, third await
\*   round: the currentRound of the handler's room object once that object
\*          is no longer the cached one (NULL while it is)
Cont(req, stage, updates, room, round) ==
  [op |-> req.op, req |-> req, stage |-> stage, updates |-> updates,
   room |-> room, round |-> round]
NoUpdates == [none |-> 0]
Idle == [op |-> "idle", req |-> NoReq, stage |-> 0, updates |-> NoUpdates,
         room |-> NoUpdates, round |-> NULL]

Free(pend) == {i \in 1..MaxPending : pend[i].op = "idle"}
Push(pend, cont) ==
  LET i == CHOOSE j \in Free(pend) : \A k \in Free(pend) : j <= k
  IN [pend EXCEPT ![i] = cont]

\* the handlers' room objects stop being the cached object when the cache
\* entry is replaced: they keep the values they had
Detach(pend, rooms, roomCode) ==
  [i \in 1..MaxPending |->
     IF pend[i].op = "submit" /\ pend[i].stage = 1 /\ pend[i].round = NULL
        /\ toUpperCase(pend[i].req.code) = roomCode /\ has(rooms, roomCode)
     THEN [pend[i] EXCEPT !.round = rooms[roomCode].currentRound]
     ELSE pend[i]]

\* modes of execution
\*   sync:  the handler is not interrupted at its awaits
\*   store: the contents of the store are modelled (needed only when the
\*          process restarts: until then the cache holds every room and the
\*          store is written but never read)
SEQ == [sync |-> TRUE, store |-> FALSE]
WARM == [sync |-> FALSE, store |-> FALSE]
COLD == [sync |-> FALSE, store |-> TRUE]
Sync(m) == m.sync
Tracked(m) == m.store

\* one step of a handler: the new cache, store, suspended handlers, the status
\* of the response sent (lastRes when none is sent) and the turn history
Commit(rooms, fs, pend, res, ts) ==
  /\ memoryRooms' = rooms
  /\ fsRooms' = fs
  /\ pending' = pend
  /\ lastRes' = res
  /\ turnSubmits' = ts
  /\ UNCHANGED <<USE_FIRESTORE, USE_MOCK_AI, otherVars>>

\* res.status(res).json({error})
Reject(rooms, pend, res) ==
  /\ Commit(rooms, fsRooms, pend, res, turnSubmits)
  /\ UNCHANGED uuidCount

StoreWrites(m) == USE_FIRESTORE /\ Tracked(m)

TotalResponses(room) ==
  LET RECURSIVE Sum(_)
      Sum(S) == IF S = {} THEN 0
                ELSE LET x == CHOOSE y \in S : TRUE
                     IN Len(room.participants[x].responses) + Sum(S \ {x})
  IN Sum(DOMAIN room.participants)

\* the history count of the current turn after a step that may set currentTurn
TurnSubmitsAfter(rooms, rc) ==
  IF has(rooms, rc) /\ has(memoryRooms, rc)
     /\ rooms[rc].currentTurn = memoryRooms[rc].currentTurn
     /\ rooms[rc].hostId = memoryRooms[rc].hostId
  THEN turnSubmits ELSE 0

\* ------------------------------------------------------- handler bodies
\* (the code of a handler after `const room = await getRoom(roomCode)`;
\*  rooms: the cache at that point, pend: the other suspended handlers)

\* POST /api/rooms/:code/join
JoinBody(req, rooms, pend, m) ==
  LET rc == toUpperCase(req.code)
      chk == joinCheck(rooms, rc, TRUE)
      participantId == uuidCount + 1
  IN IF chk # 0 THEN Reject(rooms, pend, chk)
     ELSE \E rooms1 \in {addParticipantToRoom(rooms, rc, participantId)} :
          LET fs1 == IF StoreWrites(m)
                     THEN fbUpdateRoom(fbAddParticipant(fsRooms, rc, participantId), rc,
                                       [turnOrder |-> rooms1[rc].turnOrder])
                     ELSE fsRooms
          IN /\ uuidCount < MaxUuid
             /\ uuidCount' = participantId
             /\ Commit(rooms1, fs1, pend, 200, turnSubmits)

\* POST /api/rooms/:code/remove-participant
RemoveBody(req, rooms, pend, m) ==
  LET rc == toUpperCase(req.code)
      chk == removeCheck(rooms, rc, req.hostId, req.pid)
  IN IF chk # 0 THEN Reject(rooms, pend, chk)
     ELSE \E rooms1 \in {[rooms EXCEPT ![rc] = removeParticipant(@, req.pid)]} :
          \E updates \in {removeUpdates(rooms1[rc], req.pid)} :
          \E rooms2 \in {IF USE_FIRESTORE THEN updateRoomData(rooms1, rc, updates) ELSE rooms1} :
          LET fs1 == IF StoreWrites(m) THEN fbUpdateRoom(fsRooms, rc, updates) ELSE fsRooms
          IN /\ Commit(rooms2, fs1, pend, 200, TurnSubmitsAfter(rooms2, rc))
             /\ UNCHANGED uuidCount

\* A handler that ends with
\*    await updateRoomData(roomCode, updates);
\*    if (memoryRooms.has(roomCode)) Object.assign(memoryRooms.get(roomCode), updates);
\*    res.json({ success: true, ... })
UpdateHandler(req, rooms, pend, updates, setsTurn, m) ==
  \E rooms1 \in {updateRoomData(rooms, toUpperCase(req.code), updates)} :
  LET rc == toUpperCase(req.code)
      fs1 == IF StoreWrites(m) THEN fbUpdateRoom(fsRooms, rc, updates) ELSE fsRooms
      ts == IF setsTurn THEN 0 ELSE turnSubmits
  IN /\ UNCHANGED uuidCount
     /\ IF Sync(m) \/ ~USE_FIRESTORE
        THEN Commit(updateRoomData(rooms1, rc, updates), fs1, pend, 200, ts)
        ELSE /\ Free(pend) # {}
             /\ Commit(rooms1, fs1, Push(pend, Cont(req, 1, updates, NoUpdates, NULL)),
                       lastRes, ts)

\* POST /api/rooms/:code/lock
LockBody(req, rooms, pend, m) ==
  LET rc == toUpperCase(req.code)
      chk == lockCheck(rooms, rc, req.hostId)
  IN IF chk # 0 THEN Reject(rooms, pend, chk)
     ELSE \E updates \in {lockUpdates(req.flag)} :
            UpdateHandler(req, rooms, pend, updates, FALSE, m)

\* POST /api/rooms/:code/start
StartBody(req, rooms, pend, m) ==
  LET rc == toUpperCase(req.code)
      chk == startCheck(rooms, rc)
  IN IF chk # 0 THEN Reject(rooms, pend, chk)
     ELSE \E updates \in {startUpdates(rooms[rc])} :
            UpdateHandler(req, rooms, pend, updates, TRUE, m)

\* POST /api/rooms/:code/next-turn
NextTurnBody(req, rooms, pend, m) ==
  LET rc == toUpperCase(req.code)
      chk == nextTurnCheck(rooms, rc)
  IN IF chk # 0 THEN Reject(rooms, pend, chk)
     ELSE /\ rooms[rc].currentRound < MaxRound
          /\ \E updates \in {nextTurnUpdates(rooms[rc])} :
               UpdateHandler(req, rooms, pend, updates, TRUE, m)

\* POST /api/rooms/:code/assign-turn
AssignTurnBody(req, rooms, pend, m) ==
  LET rc == toUpperCase(req.code)
      chk == assignTurnCheck(rooms, rc, req.pid)
  IN IF chk # 0 THEN Reject(rooms, pend, chk)
     ELSE \E updates \in {assignTurnUpdates(rooms[rc], req.pid)} :
            UpdateHandler(req, rooms, pend, updates, TRUE, m)

\* POST /api/rooms/:code/raise-hand
RaiseHandBody(req, rooms, pend, m) ==
  LET rc == toUpperCase(req.code)
      chk == raiseHandCheck(rooms, rc)
  IN IF chk # 0 THEN Reject(rooms, pend, chk)
     ELSE IF includes(rooms[rc].raisedHands, req.pid)
          THEN /\ Commit(rooms, fsRooms, pend, 200, turnSubmits)
               /\ UNCHANGED uuidCount
          ELSE /\ Len(rooms[rc].raisedHands) < MaxHands
               /\ \E updates \in {raiseHandUpdates(rooms[rc], req.pid)} :
                    UpdateHandler(req, rooms, pend, updates, FALSE, m)

\* POST /api/rooms/:code/lower-hand
LowerHandBody(req, rooms, pend, m) ==
  LET rc == toUpperCase(req.code)
  IN IF ~has(rooms, rc) THEN Reject(rooms, pend, 404)
     ELSE \E updates \in {lowerHandUpdates(rooms[rc], req.pid)} :
            UpdateHandler(req, rooms, pend, updates, FALSE, m)

\* POST /api/rooms/:code/end, up to its first await
EndBody(req, rooms, pend, m) ==
  LET rc == toUpperCase(req.code)
      rooms1 == updateRoomData(rooms, rc, endUpdates1)
      fs1 == IF StoreWrites(m) THEN fbUpdateRoom(fsRooms, rc, endUpdates1) ELSE fsRooms
  IN IF ~has(rooms, rc) THEN Reject(rooms, pend, 404)
     ELSE /\ UNCHANGED uuidCount
          /\ IF Sync(m) \/ ~USE_FIRESTORE
             THEN Commit(updateRoomData(updateRoomData(rooms1, rc, endUpdates2), rc, endUpdates2),
                         IF StoreWrites(m) THEN fbUpdateRoom(fs1, rc, endUpdates2) ELSE fs1,
                         pend, 200, 0)
             ELSE /\ Free(pend) # {}
                  /\ Commit(rooms1, fs1, Push(pend, Cont(req, 1, endUpdates1, NoUpdates, NULL)),
                            lastRes, 0)

\* POST /api/rooms/:code/submit, up to the transcription call
\* aiOk: the transcription call returns (evaluateResponse never throws: it
\* falls back to the mock evaluation)
SubmitBody(req, rooms, pend, m, aiOk) ==
  LET rc == toUpperCase(req.code)
      chk == submitCheck(rooms, rc, req.pid, req.flag)
  IN IF chk # 0 THEN Reject(rooms, pend, chk)
     ELSE /\ TotalResponses(rooms[rc]) < (IF Sync(m) THEN MaxResponses ELSE MaxResponsesAsync)
          /\ UNCHANGED uuidCount
          /\ IF USE_MOCK_AI \/ (Sync(m) /\ aiOk)
             THEN LET data == argumentData(rooms[rc]) IN
                  Commit(addArgumentToRoom(rooms, rc, req.pid, data),
                         IF StoreWrites(m) THEN fbAddArgument(fsRooms, rc, req.pid, data)
                         ELSE fsRooms,
                         pend, 200, turnSubmits + 1)
             ELSE IF Sync(m)
             THEN Commit(rooms, fsRooms, pend, 500, turnSubmits)
             ELSE /\ Free(pend) # {}
                  /\ Commit(rooms, fsRooms, Push(pend, Cont(req, 1, NoUpdates, NoUpdates, NULL)),
                            lastRes, turnSubmits)

\* the handler of a request, from the return of getRoom on
HandlerBody(req, rooms, pend, m, aiOk) ==
  CASE req.op = "join" -> JoinBody(req, rooms, pend, m)
    [] req.op = "remove" -> RemoveBody(req, rooms, pend, m)
    [] req.op \in {"lock", "unlock"} -> LockBody(req, rooms, pend, m)
    [] req.op = "start" -> StartBody(req, rooms, pend, m)
    [] req.op = "nextTurn" -> NextTurnBody(req, rooms, pend, m)
    [] req.op = "assignTurn" -> AssignTurnBody(req, rooms, pend, m)
    [] req.op = "raiseHand" -> RaiseHandBody(req, rooms, pend, m)
    [] req.op = "lowerHand" -> LowerHandBody(req, rooms, pend, m)
    [] req.op = "end" -> EndBody(req, rooms, pend, m)
    [] req.op = "submit" -> SubmitBody(req, rooms, pend, m, aiOk)

\* getRoom misses the cache and the store has the room
Miss(roomCode) == ~has(memoryRooms, roomCode) /\ USE_FIRESTORE /\ has(fsRooms, roomCode)

LoadPerms(roomCode) ==
  IF Miss(roomCode) THEN Perms(Len(fsRooms[roomCode].arguments)) ELSE {<<>>}

\* a request from its arrival: `await getRoom(roomCode)`, then the body
Request(req, m, aiOk) ==
  LET rc == toUpperCase(req.code) IN
  IF ~Sync(m) /\ Miss(rc)
  THEN /\ Free(pending) # {}
       /\ \E perm \in LoadPerms(rc) :
            pending' = Push(pending, Cont(req, 0, NoUpdates, fbGetRoom(fsRooms, rc, perm), NULL))
       /\ UNCHANGED <<memoryRooms, fsRooms, uuidCount, USE_FIRESTORE, USE_MOCK_AI,
                      lastRes, turnSubmits, otherVars>>
  ELSE \E perm \in LoadPerms(rc) :
         \E rooms \in {getRoom(memoryRooms, fsRooms, USE_FIRESTORE, rc, perm)} :
           HandlerBody(req, rooms, pending, m, aiOk)

\* ------------------------------------------------------------- actions
\* POST /api/rooms
CreateRoom(topicOk, m) ==
  IF ~topicOk THEN Reject(memoryRooms, pending, 400)
  ELSE /\ uuidCount < MaxUuid
       /\ uuidCount' = uuidCount + 1
       /\ \E roomCode \in GenCodes :
            LET roomData == newRoomData(uuidCount + 1) IN
            Commit(saveRoom(memoryRooms, roomCode, roomData),
                   IF StoreWrites(m) THEN fbCreateRoom(fsRooms, roomCode, roomData) ELSE fsRooms,
                   Detach(pending, memoryRooms, roomCode), 200, 0)

Join(code, nameOk, m) ==
  IF ~nameOk THEN Reject(memoryRooms, pending, 400)
  ELSE Request(Req("join", code, NoId, NoId, FALSE), m, TRUE)

Lock(code, hostId, lock, m) ==
  Request(Req(IF lock # FALSE THEN "lock" ELSE "unlock", code, NoId, hostId, lock), m, TRUE)

RemoveParticipant(code, hostId, participantId, m) ==
  Request(Req("remove", code, participantId, hostId, FALSE), m, TRUE)

Start(code, m) == Request(Req("start", code, NoId, NoId, FALSE), m, TRUE)

NextTurn(code, m) == Request(Req("nextTurn", code, NoId, NoId, FALSE), m, TRUE)

AssignTurn(code, participantId, m) ==
  Request(Req("assignTurn", code, participantId, NoId, FALSE), m, TRUE)

RaiseHand(code, participantId, m) ==
  Request(Req("raiseHand", code, participantId, NoId, FALSE), m, TRUE)

LowerHand(code, participantId, m) ==
  Request(Req("lowerHand", code, participantId, NoId, FALSE), m, TRUE)

End(code, m) == Request(Req("end", code, NoId, NoId, FALSE), m, TRUE)

Submit(code, participantId, hasFile, aiOk, m) ==
  Request(Req("submit", code, participantId, NoId, hasFile), m, aiOk)

\* ------------------------------------------- continuations after an await
UpdateOps == {"lock", "unlock", "start", "nextTurn", "assignTurn", "raiseHand", "lowerHand"}

Release(i) == [pending EXCEPT ![i] = Idle]

\* getRoom after the store read: the room read is cached (replacing whatever
\* the cache holds by then) and the handler goes on
ResumeFetch(i) ==
  LET c == pending[i]
      rc == toUpperCase(c.req.code)
  IN /\ c.op # "idle"
     /\ c.stage = 0
     /\ HandlerBody(c.req, MapSet(memoryRooms, rc, c.room),
                    Detach(Release(i), memoryRooms, rc), COLD, TRUE)

\* the "Update memory" block after `await updateRoomData(roomCode, updates)`
ResumeUpdate(i) ==
  LET c == pending[i]
      rc == toUpperCase(c.req.code)
      rooms1 == updateRoomData(memoryRooms, rc, c.updates)
  IN /\ c.op \in UpdateOps
     /\ c.stage = 1
     /\ Commit(rooms1, fsRooms, Release(i), 200, TurnSubmitsAfter(rooms1, rc))
     /\ UNCHANGED uuidCount

\* end, after its awaits
\* stage 1: after `await updateRoomData({status: evaluating, currentTurn: null})`:
\*          the results are computed and fbSaveReport is called
\* stage 2: after `await fbSaveReport(...)`: updateRoomData({status: results})
\* stage 3: after that await: status = results in memory, response
ResumeEnd(i, m) ==
  LET c == pending[i]
      rc == toUpperCase(c.req.code)
  IN /\ c.op = "end"
     /\ UNCHANGED uuidCount
     /\ \/ /\ c.stage = 1
           /\ Commit(memoryRooms, fsRooms, [pending EXCEPT ![i].stage = 2], lastRes, turnSubmits)
        \/ /\ c.stage = 2
           /\ Commit(updateRoomData(memoryRooms, rc, endUpdates2),
                     IF StoreWrites(m) THEN fbUpdateRoom(fsRooms, rc, endUpdates2) ELSE fsRooms,
                     [pending EXCEPT ![i].stage = 3], lastRes, turnSubmits)
        \/ /\ c.stage = 3
           /\ Commit(updateRoomData(memoryRooms, rc, endUpdates2), fsRooms, Release(i),
                     200, turnSubmits)

\* submit, after the transcription and evaluation calls
ResumeSubmit(i, aiOk, m) ==
  LET c == pending[i]
      rc == toUpperCase(c.req.code)
  IN /\ c.op = "submit"
     /\ c.stage = 1
     /\ UNCHANGED uuidCount
     /\ IF aiOk /\ has(memoryRooms, rc)
        THEN LET data == IF c.round = NULL THEN argumentData(memoryRooms[rc])
                         ELSE [round |-> c.round]
                 rooms1 == addArgumentToRoom(memoryRooms, rc, c.req.pid, data)
             IN Commit(rooms1,
                       IF StoreWrites(m) THEN fbAddArgument(fsRooms, rc, c.req.pid, data)
                       ELSE fsRooms,
                       Release(i), 200,
                       IF rooms1 = memoryRooms THEN turnSubmits ELSE turnSubmits + 1)
        ELSE Commit(memoryRooms, fsRooms, Release(i), 500, turnSubmits)

\* the process restarts: the cache and the handlers in flight are gone
Restart ==
  /\ memoryRooms # <<>> \/ \E i \in 1..MaxPending : pending[i].op # "idle"
  /\ memoryRooms' = <<>>
  /\ pending' = [i \in 1..MaxPending |-> Idle]
  /\ UNCHANGED <<fsRooms, uuidCount, USE_FIRESTORE, USE_MOCK_AI, lastRes, turnSubmits,
                 otherVars>>

\* ------------------------------------------------------- specifications
\* the process after start-up: no room, no request in flight
InitRooms ==
  /\ memoryRooms = <<>>
  /\ fsRooms = <<>>
  /\ uuidCount = 0
  /\ USE_FIRESTORE \in BOOLEAN
  /\ USE_MOCK_AI \in BOOLEAN
  /\ pending = [i \in 1..MaxPending |-> Idle]
  /\ lastRes = 0
  /\ turnSubmits = 0

\* a ScoreSet: the four dimensions an evaluation carries
ScoreSet(l, c, r, e) == [logic |-> l, clarity |-> c, relevance |-> r, emotionalBias |-> e]

\* no call of calculateFinalScore is looked at
NoScoreCall ==
  /\ argScores = ScoreSet(Num(5), Num(5), Num(5), Num(5))
  /\ argMode = "debate"
  /\ retFinalScore = NULL

\* end has not answered
NoResponse == [sent |-> FALSE, results |-> <<>>]

\* no call of end or analytics is looked at
NoResultsCall ==
  /\ argRoom = [mode |-> "debate", participants |-> <<>>]
  /\ joined = <<>>
  /\ endResponse = NoResponse
  /\ balanceScore = NULL

\* an interview handler slot that holds no suspended handler
InterviewIdle == [stage |-> "idle", sessionId |-> NoId, payload |-> NoPayload]

\* no interview session, no interview request in flight
NoInterview ==
  /\ interviewSessions = <<>>
  /\ interviewPending = [i \in 1..MaxInterviewPending |-> InterviewIdle]
  /\ interviewRes = "none"
  /\ respondCalls = 0
  /\ answersRecorded = 0

Init ==
  /\ InitRooms
  /\ NoScoreCall
  /\ NoResultsCall
  /\ NoInterview

\* the secrets a request can present: the host id of the room, or another value
HostIds(code) ==
  LET rc == toUpperCase(code) IN
  {NoId} \cup (IF has(memoryRooms, rc) THEN {memoryRooms[rc].hostId}
               ELSE IF Miss(rc) THEN {fsRooms[rc].doc.hostId} ELSE {})

\* outcomes of the transcription call: it returns or throws; the mock
\* transcript is a constant and cannot fail
AiOutcomes == IF USE_MOCK_AI THEN {TRUE} ELSE BOOLEAN

Handlers(m, codes) ==
  \/ \E topicOk \in BOOLEAN : CreateRoom(topicOk, m)
  \/ \E code \in codes, nameOk \in BOOLEAN : Join(code, nameOk, m)
  \/ \E code \in codes, lock \in BOOLEAN : \E hostId \in HostIds(code) :
        Lock(code, hostId, lock, m)
  \/ \E code \in codes, participantId \in ReqIds : \E hostId \in HostIds(code) :
        RemoveParticipant(code, hostId, participantId, m)
  \/ \E code \in codes : Start(code, m)
  \/ \E code \in codes : NextTurn(code, m)
  \/ \E code \in codes, participantId \in ReqIds : AssignTurn(code, participantId, m)
  \/ \E code \in codes : End(code, m)
  \/ \E code \in codes, participantId \in ReqIds, hasFile \in BOOLEAN, aiOk \in AiOutcomes :
        Submit(code, participantId, hasFile, aiOk, m)

HandHandlers(m, codes) ==
  \/ \E code \in codes, participantId \in ReqIds : RaiseHand(code, participantId, m)
  \/ \E code \in codes, participantId \in ReqIds : LowerHand(code, participantId, m)

\* Spec: no store credentials and no AI key. In this configuration no handler
\* awaits I/O (updateRoomData and addArgumentToRoom return without a store
\* call, the transcript and the evaluation are the mock ones), so every
\* handler runs to completion before the next request is served.
InitSeq == Init /\ ~USE_FIRESTORE /\ USE_MOCK_AI

Next == Handlers(SEQ, ReqCodes)

Spec == InitSeq /\ [][Next]_vars

\* SpecHost: the host's operations on one room, in the configuration of
\* Spec: the room is created once; joins, lock and unlock, remove-participant,
\* start, next-turn, submit and end follow in any order.
NextHost ==
  \/ memoryRooms = <<>> /\ \E topicOk \in BOOLEAN : CreateRoom(topicOk, SEQ)
  \/ \E nameOk \in BOOLEAN : Join("abc234", nameOk, SEQ)
  \/ \E lock \in BOOLEAN : \E hostId \in ReqIds : Lock("abc234", hostId, lock, SEQ)
  \/ \E participantId \in ReqIds : \E hostId \in ReqIds :
        RemoveParticipant("abc234", hostId, participantId, SEQ)
  \/ Start("abc234", SEQ)
  \/ NextTurn("abc234", SEQ)
  \/ \E participantId \in ReqIds, hasFile \in BOOLEAN :
        Submit("abc234", participantId, hasFile, TRUE, SEQ)
  \/ End("abc234", SEQ)

SpecHost == InitSeq /\ [][NextHost]_vars

\* SpecHands: Spec with the raise-hand and lower-hand requests
NextHands ==
  \/ Handlers(SEQ, ReqCodes)
  \/ HandHandlers(SEQ, ReqCodes)

SpecHands == InitSeq /\ [][NextHands]_vars

\* SpecTurns: the turn of one room: joins, start, next-turn, assign-turn,
\* raise-hand, lower-hand, submit and end, in the configuration of Spec.
NextTurns ==
  \/ memoryRooms = <<>> /\ CreateRoom(TRUE, SEQ)
  \/ Join("abc234", TRUE, SEQ)
  \/ Start("abc234", SEQ)
  \/ NextTurn("abc234", SEQ)
  \/ \E participantId \in ReqIds : AssignTurn("abc234", participantId, SEQ)
  \/ \E participantId \in ReqIds : RaiseHand("abc234", participantId, SEQ)
  \/ \E participantId \in ReqIds : LowerHand("abc234", participantId, SEQ)
  \/ \E participantId \in ReqIds :
       /\ has(memoryRooms, "ABC234")
       /\ TotalResponses(memoryRooms["ABC234"]) < MaxTurnResponses
       /\ Submit("abc234", participantId, TRUE, TRUE, SEQ)
  \/ End("abc234", SEQ)

SpecTurns == InitSeq /\ [][NextTurns]_vars

\* SpecAsync leaves out raise-hand and lower-hand (they touch raisedHands
\* only) and requests for unknown room codes (rejected before any await).
NextAsync ==
  \/ Handlers(WARM, {"abc234"})
  \/ \E i \in 1..MaxPending : ResumeUpdate(i)
  \/ \E i \in 1..MaxPending : ResumeEnd(i, WARM)
  \/ \E i \in 1..MaxPending, aiOk \in BOOLEAN : ResumeSubmit(i, aiOk, WARM)

\* The store configured and a real AI key: every await is a suspension point.
\* (Without the store an update handler resumes before any other request is
\* served, and with the mock AI submit has no await before the append: both
\* are the behaviours below in which the handler resumes at once.)
InitAsync == Init /\ USE_FIRESTORE /\ ~USE_MOCK_AI

SpecAsync == InitAsync /\ [][NextAsync]_vars

\* SpecCold: create, join and lock/unlock with the store modelled, restarts,
\* and requests that overlap while they wait for getRoom's store read.
NextCold ==
  \/ \E topicOk \in BOOLEAN : CreateRoom(topicOk, COLD)
  \/ \E nameOk \in BOOLEAN : Join("abc234", nameOk, COLD)
  \/ \E lock \in BOOLEAN : \E hostId \in HostIds("abc234") : Lock("abc234", hostId, lock, COLD)
  \/ Restart
  \/ \E i \in 1..MaxPending : ResumeFetch(i)
  \/ \E i \in 1..MaxPending : ResumeUpdate(i)

SpecCold == InitAsync /\ [][NextCold]_vars

\* SpecStore: one room is created, with the store modelled and no restart:
\* join, remove-participant, lock/unlock and start, each write reaching the
\* store.
NextStore ==
  \/ fsRooms = <<>> /\ CreateRoom(TRUE, COLD)
  \/ Join("abc234", TRUE, COLD)
  \/ \E hostId \in HostIds("abc234"), participantId \in ReqIds :
       RemoveParticipant("abc234", hostId, participantId, COLD)
  \/ \E lock \in BOOLEAN : \E hostId \in HostIds("abc234") : Lock("abc234", hostId, lock, COLD)
  \/ Start("abc234", COLD)
  \/ \E i \in 1..MaxPending : ResumeUpdate(i)

SpecStore == InitAsync /\ [][NextStore]_vars

\* The store configured, the cache warm, and every write of a handler either
\* landing or failing: firebase.js catches the error of a failed write and
\* returns false, the store is left as it was and the caller, which ignores
\* the value returned, goes on.
STORED == [sync |-> TRUE, store |-> TRUE]
FAILED == [sync |-> TRUE, store |-> FALSE]

\* no write was lost so far: the store has what the cache has
NoWriteLost ==
  IF has(memoryRooms, "ABC234")
  THEN has(fsRooms, "ABC234") /\
       (LET n == Len(fsRooms["ABC234"].arguments)
            IN fbGetRoom(fsRooms, "ABC234", [i \in 1..n |-> i]) = memoryRooms["ABC234"])
  ELSE fsRooms = <<>>

\* (the writes of a handler fail in a state where none was lost before: the
\* handlers after it meet a store that is one operation behind the cache)
\* (one room is created; lock and assign-turn end like start, in
\* `await updateRoomData(updates)` and the update of the cache; submit is
\* examined in every state these steps reach)
FailHandlers(m) ==
  \/ memoryRooms = <<>> /\ CreateRoom(TRUE, m)
  \/ Join("abc234", TRUE, m)
  \/ \E hostId \in HostIds("abc234"), participantId \in ReqIds :
       RemoveParticipant("abc234", hostId, participantId, m)
  \/ Start("abc234", m)
  \/ NextTurn("abc234", m)
  \/ End("abc234", m)

NextFail ==
  \/ FailHandlers(STORED)
  \/ NoWriteLost /\ FailHandlers(FAILED)

SpecFail == InitAsync /\ [][NextFail]_vars

\* SpecScore: one call of calculateFinalScore. The ScoreSets are those with
\* integer dimensions from 1 to 10 (what the evaluation prompt asks the AI
\* for); the modes are the four of VALID_MODES and one string that names no
\* entry of MODE_WEIGHTS.
ScoreValues == {Num(n) : n \in 1..10}
ScoreSets == {ScoreSet(l, c, r, e) : l \in ScoreValues, c \in ScoreValues,
                                     r \in ScoreValues, e \in ScoreValues}
Modes == VALID_MODES \cup {"unknown"}

InitScore ==
  /\ InitRooms /\ ~USE_FIRESTORE /\ USE_MOCK_AI
  /\ argScores \in ScoreSets
  /\ argMode \in Modes
  /\ retFinalScore = NULL
  /\ NoResultsCall
  /\ NoInterview

CalculateFinalScore ==
  /\ retFinalScore = NULL
  /\ retFinalScore' = calculateFinalScore(argScores, argMode)
  /\ UNCHANGED <<roomVars, argScores, argMode, resultVars, interviewVars>>

NextScore == CalculateFinalScore

SpecScore == InitScore /\ [][NextScore]_vars

\* SpecResults: the results end computes and the balanceScore analytics
\* computes for one room, as getRoom returned it. The room has up to
\* MaxEndParticipants participants, joined in the order of their ids; each has
\* one of the ResponseLists. With the store configured the room may have been
\* read back from the store after a restart.
MaxEndParticipants == 3

NoScores == [logic |-> NULL, clarity |-> NULL, relevance |-> NULL, emotionalBias |-> NULL]
Response(l, c, r, e) == [scores |-> ScoreSet(Num(l), Num(c), Num(r), Num(e))]
ResponseLists ==
  { <<>>,
    <<Response(8, 6, 7, 3)>>,
    <<Response(6, 8, 7, 3)>>,
    <<[scores |-> NoScores]>>,
    <<Response(8, 6, 7, 3), [scores |-> NoScores]>> }
EndModes == {"debate", "classroom"}

InitResults ==
  /\ InitRooms /\ USE_FIRESTORE /\ USE_MOCK_AI
  /\ NoScoreCall
  /\ \E n \in 0..MaxEndParticipants, mode \in EndModes :
       \E lists \in [1..n -> ResponseLists] :
         /\ argRoom = [mode |-> mode,
                       participants |-> [i \in 1..n |-> [id |-> i, responses |-> lists[i]]]]
         /\ joined = [i \in 1..n |-> i]
  /\ endResponse = NoResponse
  /\ balanceScore = NULL
  /\ NoInterview

\* firebase.js getRoom on a cache miss: the participants Map is filled in the
\* order the store returns the documents of the subcollection, which is the
\* order of their ids (uuidv4 values), whatever the order of the joins was
FbGetRoom ==
  /\ USE_FIRESTORE
  /\ ~endResponse.sent /\ balanceScore = NULL
  /\ \A i \in 1..Len(joined) : argRoom.participants[i].id = joined[i]
  /\ \E order \in Permutations(1..Len(joined)) :
       /\ order # [i \in 1..Len(joined) |-> i]
       /\ argRoom' = [argRoom EXCEPT !.participants =
                        [i \in 1..Len(joined) |-> argRoom.participants[order[i]]]]
  /\ UNCHANGED <<roomVars, scoreVars, joined, endResponse, balanceScore, interviewVars>>

\* POST /api/rooms/:code/end, the response
EndResults ==
  /\ ~endResponse.sent
  /\ endResponse' = [sent |-> TRUE, results |-> endResults(argRoom)]
  /\ UNCHANGED <<roomVars, scoreVars, argRoom, joined, balanceScore, interviewVars>>

\* GET /api/rooms/:code/analytics, the response
Analytics ==
  /\ balanceScore = NULL
  /\ balanceScore' = analyticsBalanceScore(argRoom)
  /\ UNCHANGED <<roomVars, scoreVars, argRoom, joined, endResponse, interviewVars>>

NextResults == FbGetRoom \/ EndResults \/ Analytics

SpecResults == InitResults /\ [][NextResults]_vars

\* SpecInterview: the interview API. One session id is handed out; start and
\* respond are atomic without an AI key and are cut at each await on the AI
\* collaborator with one, other interview requests running in between.
SessionIds == {1}

InterviewFree == {i \in 1..MaxInterviewPending : interviewPending[i].stage = "idle"}

InitInterview ==
  /\ InitRooms /\ ~USE_FIRESTORE
  /\ NoScoreCall
  /\ NoResultsCall
  /\ NoInterview

\* respond from `// Check if we've hit the question limit` on: the session is
\* closed and the response sent, or the next question is produced (at once
\* without an AI key, after the await on the stream with one)
LimitCheck(sessions, i, sessionId) ==
  IF sessions[sessionId].questionCount >= MAX_QUESTIONS
  THEN /\ interviewSessions' = [sessions EXCEPT ![sessionId].status = "complete"]
       /\ interviewPending' = [interviewPending EXCEPT ![i] = InterviewIdle]
       /\ interviewRes' = "complete"
  ELSE IF USE_MOCK_AI
  THEN /\ interviewSessions' =
            [sessions EXCEPT ![sessionId] = addAssistantMessage(@)]
       /\ interviewPending' = [interviewPending EXCEPT ![i] = InterviewIdle]
       /\ interviewRes' = "question"
  ELSE /\ interviewSessions' = sessions
       /\ interviewPending' =
            [interviewPending EXCEPT ![i] = [stage |-> "stream", sessionId |-> sessionId,
                                             payload |-> NoPayload]]
       /\ interviewRes' = interviewRes

\* POST /api/interview/start up to its response or its await on the stream
InterviewStart(roleOk) ==
  /\ IF ~roleOk
     THEN /\ interviewRes' = "400"
          /\ UNCHANGED <<interviewSessions, interviewPending>>
     ELSE \E sessionId \in SessionIds \ DOMAIN interviewSessions :
            IF USE_MOCK_AI
            THEN /\ interviewSessions' =
                      MapSet(interviewSessions, sessionId, addAssistantMessage(createSession))
                 /\ interviewRes' = "question"
                 /\ UNCHANGED interviewPending
            ELSE \E i \in InterviewFree :
                   /\ interviewSessions' = MapSet(interviewSessions, sessionId, createSession)
                   /\ interviewPending' =
                        [interviewPending EXCEPT
                           ![i] = [stage |-> "start_stream", sessionId |-> sessionId,
                                   payload |-> NoPayload]]
                   /\ UNCHANGED interviewRes
  /\ UNCHANGED <<roomVars, scoreVars, resultVars, respondCalls, answersRecorded>>

\* POST /api/interview/respond up to its response or its await on the
\* transcription
InterviewRespond(sessionId, hasFile) ==
  /\ IF sessionId = NoId
     THEN /\ interviewRes' = "400"
          /\ UNCHANGED <<interviewSessions, interviewPending, respondCalls, answersRecorded>>
     ELSE IF sessionId \notin DOMAIN interviewSessions
     THEN /\ interviewRes' = "404"
          /\ UNCHANGED <<interviewSessions, interviewPending, respondCalls, answersRecorded>>
     ELSE IF interviewSessions[sessionId].status = "complete"
     THEN /\ interviewRes' = "already complete"
          /\ UNCHANGED <<interviewSessions, interviewPending, respondCalls, answersRecorded>>
     ELSE IF ~hasFile
     THEN /\ interviewRes' = "400"
          /\ UNCHANGED <<interviewSessions, interviewPending, respondCalls, answersRecorded>>
     ELSE /\ respondCalls < MaxRespondCalls
          /\ respondCalls' = respondCalls + 1
          /\ IF USE_MOCK_AI
             THEN \E i \in InterviewFree :
                    /\ LimitCheck([interviewSessions EXCEPT ![sessionId] = addUserMessage(@)],
                                  i, sessionId)
                    /\ answersRecorded' = answersRecorded + 1
             ELSE \E i \in InterviewFree :
                    /\ interviewPending' =
                         [interviewPending EXCEPT
                            ![i] = [stage |-> "transcribe", sessionId |-> sessionId,
                                    payload |-> NoPayload]]
                    /\ UNCHANGED <<interviewSessions, interviewRes, answersRecorded>>
  /\ UNCHANGED <<roomVars, scoreVars, resultVars>>

\* a suspended interview handler goes on after its await: the AI call
\* succeeded (aiOk), or it threw or, for the summary, returned nothing
InterviewResume(i, aiOk) ==
  /\ interviewPending[i].stage # "idle"
  /\ LET stage == interviewPending[i].stage
         sessionId == interviewPending[i].sessionId
     IN IF stage = "transcribe"
        THEN IF ~aiOk
             THEN /\ interviewRes' = "500"
                  /\ interviewPending' = [interviewPending EXCEPT ![i] = InterviewIdle]
                  /\ UNCHANGED <<interviewSessions, answersRecorded>>
             ELSE \E sessions \in {[interviewSessions EXCEPT ![sessionId] = addUserMessage(@)]} :
                    /\ answersRecorded' = answersRecorded + 1
                    /\ IF shouldSummarize(sessions[sessionId])
                       THEN /\ interviewSessions' = sessions
                            /\ interviewPending' =
                                 [interviewPending EXCEPT
                                    ![i].stage = "summarize",
                                    ![i].payload =
                                       buildSummarizationPayload(sessions[sessionId])]
                            /\ UNCHANGED interviewRes
                       ELSE LimitCheck(sessions, i, sessionId)
        ELSE IF stage = "summarize"
        THEN /\ LimitCheck(IF aiOk
                           THEN [interviewSessions EXCEPT ![sessionId] =
                                   applySummarization(@, SummaryOf(interviewPending[i].payload))]
                           ELSE interviewSessions,
                           i, sessionId)
             /\ UNCHANGED answersRecorded
        ELSE \* "start_stream", "stream": the question has been streamed
             /\ UNCHANGED answersRecorded
             /\ interviewPending' = [interviewPending EXCEPT ![i] = InterviewIdle]
             /\ IF aiOk
                THEN /\ interviewSessions' =
                          [interviewSessions EXCEPT ![sessionId] = addAssistantMessage(@)]
                     /\ interviewRes' = "question"
                ELSE /\ interviewRes' = "error"
                     /\ UNCHANGED interviewSessions
  /\ UNCHANGED <<roomVars, scoreVars, resultVars, respondCalls>>

NextInterview ==
  \/ \E roleOk \in BOOLEAN : InterviewStart(roleOk)
  \/ \E sessionId \in SessionIds \cup {NoId}, hasFile \in BOOLEAN :
       InterviewRespond(sessionId, hasFile)
  \/ \E i \in 1..MaxInterviewPending, aiOk \in BOOLEAN : InterviewResume(i, aiOk)

SpecInterview == InitInterview /\ [][NextInterview]_vars

\* SpecInterviewShort: SpecInterview with no more than MaxShortCalls respond
\* requests
NextInterviewShort ==
  \/ \E roleOk \in BOOLEAN : InterviewStart(roleOk)
  \/ \E sessionId \in SessionIds \cup {NoId}, hasFile \in BOOLEAN :
       respondCalls < MaxShortCalls /\ InterviewRespond(sessionId, hasFile)
  \/ \E i \in 1..MaxInterviewPending, aiOk \in BOOLEAN : InterviewResume(i, aiOk)

SpecInterviewShort == InitInterview /\ [][NextInterviewShort]_vars

\* ------------------------------------------------------------ properties
\* the room the requests of the model address
RC == "ABC234"
HasRoom == has(memoryRooms, RC)
Room == memoryRooms[RC]

\* the step leaves the room in the cache, and it is the same room (a create
\* that draws the same code replaces it by a new room with a new host id)
SameRoom ==
  /\ has(memoryRooms, RC)
  /\ has(memoryRooms', RC)
  /\ memoryRooms'[RC].hostId = memoryRooms[RC].hostId

\* C1: at most one submit is accepted per turn: once a response of the turn
\* holder has been appended, no further response is appended until the turn
\* is set again (turnSubmits counts the responses appended since then).
C1_OneSubmitPerTurn == turnSubmits <= 1

\* C2: in every reachable room state currentTurn is null or an element of
\* turnOrder.
C2_CurrentTurnInTurnOrder ==
  HasRoom => (Room.currentTurn = NULL \/ Room.currentTurn \in Range(Room.turnOrder))

\* the step is an accepted next-turn whose next index wraps past the end of
\* turnOrder
IsWrapStep ==
  /\ \E code \in ReqCodes : NextTurn(code, SEQ)
  /\ nextTurnCheck(memoryRooms, RC) = 0
  /\ indexOf(Room.turnOrder, Room.currentTurn) + 1 >= Len(Room.turnOrder)
  /\ lastRes' = 200

\* C3: currentRound never decreases; once the room has been started a step
\* changes it if and only if the step is a next-turn that wraps, and then it
\* increases by exactly 1.
C3_RoundOnlyIncreasesOnWrap ==
  [][SameRoom =>
       /\ memoryRooms'[RC].currentRound >= Room.currentRound
       /\ (Room.currentRound >= 1 /\ memoryRooms'[RC].currentRound # Room.currentRound)
            => (IsWrapStep /\ memoryRooms'[RC].currentRound = Room.currentRound + 1)]_vars

\* position of a status on waiting -> collecting -> evaluating -> results
StatusRank(st) ==
  CASE st = WAITING -> 0 [] st = COLLECTING -> 1 [] st = EVALUATING -> 2 [] st = RESULTS -> 3

\* C4: no operation moves a room from a later status back to an earlier one.
C4_StatusOnlyMovesForward ==
  [][SameRoom => StatusRank(memoryRooms'[RC].status) >= StatusRank(Room.status)]_vars

\* the code the requests of Spec carry
CODE == "abc234"

\* C5: in every reachable state, a submit for a room that is not collecting,
\* or by an id that is not currentTurn (any other participant, or the previous
\* holder after next-turn moved the turn away), has no outcome other than a
\* 400 that changes nothing; and a participant's response list grows only in
\* a step that starts with the room collecting and the turn held by that
\* participant.
C5_SubmitOutOfTurnRejected ==
  /\ [](HasRoom =>
          \A participantId \in ReqIds, hasFile \in BOOLEAN, aiOk \in AiOutcomes :
            (Room.status # COLLECTING \/ Room.currentTurn # participantId)
            => ~ENABLED (/\ Submit(CODE, participantId, hasFile, aiOk, SEQ)
                         /\ ~(lastRes' = 400 /\ memoryRooms' = memoryRooms)))
  /\ [][(SameRoom /\ memoryRooms'[RC].participants # Room.participants) =>
          \A p \in DOMAIN Room.participants \cap DOMAIN memoryRooms'[RC].participants :
            Len(memoryRooms'[RC].participants[p].responses) > Len(Room.participants[p].responses)
            => (Room.status = COLLECTING /\ Room.currentTurn = p /\ lastRes' = 200)
       ]_vars

\* C5 witness: the turn has moved from the first participant, who submitted
\* in their turn, to the second, and the last request was rejected with 400.
C5_Witness ==
  /\ HasRoom
  /\ Room.status = COLLECTING
  /\ Len(Room.turnOrder) = 2
  /\ Room.currentTurn = Room.turnOrder[2]
  /\ Len(Room.participants[Room.turnOrder[1]].responses) = 1
  /\ Len(Room.participants[Room.turnOrder[2]].responses) = 0
  /\ lastRes = 400

\* the outcome of start the spec describes: rejected with 400 and nothing
\* changed when turnOrder is empty; otherwise 200 and the room differs from
\* the room before in exactly status, currentRound and currentTurn
StartOutcome ==
  IF Len(Room.turnOrder) = 0
  THEN lastRes' = 400 /\ memoryRooms' = memoryRooms
  ELSE /\ lastRes' = 200
       /\ memoryRooms' = [memoryRooms EXCEPT ![RC] =
            [Room EXCEPT !.status = COLLECTING,
                         !.currentRound = 1,
                         !.currentTurn = Room.turnOrder[1]]]

\* C6: in every reachable state a start has no other outcome than this one:
\* it is rejected, leaving the room unchanged, when turnOrder is empty;
\* otherwise it sets status = collecting, currentRound = 1 and currentTurn =
\* turnOrder[0] and changes nothing else.
C6_StartSemantics ==
  HasRoom => ~ENABLED (Start(CODE, SEQ) /\ ~StartOutcome)

\* C6 witness: a locked room with two participants has been started (only
\* start sets collecting) and nothing was submitted yet: participants,
\* turnOrder and the lock are as they were.
C6_Witness ==
  /\ HasRoom
  /\ lastRes = 200
  /\ TotalResponses(Room) = 0
  /\ Room.status = COLLECTING
  /\ Room.currentRound = 1
  /\ Len(Room.turnOrder) = 2
  /\ Room.currentTurn = Room.turnOrder[1]
  /\ Room.locked

\* the outcome of next-turn the spec describes
NextTurnOutcome ==
  IF Room.status # COLLECTING
  THEN lastRes' = 400 /\ memoryRooms' = memoryRooms
  ELSE includes(Room.turnOrder, Room.currentTurn) =>
         LET i == indexOf(Room.turnOrder, Room.currentTurn)
             last == i = Len(Room.turnOrder) - 1
         IN /\ lastRes' = 200
            /\ memoryRooms'[RC].currentTurn =
                 IF last THEN Room.turnOrder[1] ELSE Room.turnOrder[i + 2]
            /\ memoryRooms'[RC].currentRound =
                 IF last THEN Room.currentRound + 1 ELSE Room.currentRound
            /\ memoryRooms'[RC].status = COLLECTING
            /\ memoryRooms'[RC].turnOrder = Room.turnOrder
            /\ memoryRooms'[RC].participants = Room.participants

\* C7: in every reachable state a next-turn has no other outcome than this
\* one: rejected with 400 and nothing changed when the room is not collecting;
\* in a collecting room whose currentTurn is at index i of turnOrder,
\* currentTurn = turnOrder[i+1] and currentRound unchanged when i is not the
\* last index, currentTurn = turnOrder[0] and currentRound + 1 when it is.
C7_NextTurnSemantics ==
  HasRoom => ~ENABLED (NextTurn(CODE, SEQ) /\ ~NextTurnOutcome)

\* C7 witness: two participants, and next-turn has wrapped to the first of
\* them in round 2 (only a wrapping next-turn reaches round 2).
C7_Witness ==
  /\ HasRoom
  /\ lastRes = 200
  /\ Room.status = COLLECTING
  /\ Len(Room.turnOrder) = 2
  /\ Room.currentTurn = Room.turnOrder[1]
  /\ Room.currentRound = 2

\* the outcome of join the spec describes
JoinOutcome ==
  IF Room.locked \/ Room.status \in {RESULTS, "ended"}
  THEN /\ lastRes' \in {400, 403}
       /\ memoryRooms' = memoryRooms
       /\ uuidCount' = uuidCount
  ELSE LET id == uuidCount' IN
       /\ lastRes' = 200
       /\ id \notin 0..uuidCount
       /\ id \notin DOMAIN Room.participants
       /\ memoryRooms' = [memoryRooms EXCEPT ![RC] =
            [Room EXCEPT !.participants = MapSet(@, id, [responses |-> <<>>]),
                         !.turnOrder = Room.turnOrder \o <<id>>]]

\* C8: in every reachable state a join (with a name, for a room that exists)
\* has no other outcome than this one: rejected, changing nothing, when the
\* room is locked or its status is results or ended; otherwise 200 and the
\* room differs from the room before in exactly one new participant, whose
\* id no earlier uuidv4() call returned, with an empty response list,
\* appended at the end of turnOrder.
C8_JoinSemantics ==
  HasRoom => ~ENABLED (Join(CODE, TRUE, SEQ) /\ ~JoinOutcome)

\* C8 witness: the participant who joined last (the latest id handed out) is
\* at the end of turnOrder with no responses, in a debate in progress whose
\* turn holder has already submitted.
C8_Witness ==
  /\ HasRoom
  /\ lastRes = 200
  /\ Room.status = COLLECTING
  /\ Room.currentRound = 1
  /\ Len(Room.turnOrder) = 2
  /\ Room.currentTurn = Room.turnOrder[1]
  /\ Len(Room.participants[Room.turnOrder[1]].responses) = 1
  /\ Room.turnOrder[2] = uuidCount
  /\ Len(Room.participants[Room.turnOrder[2]].responses) = 0

\* the store and the cache agree that the room is locked, and no lock or
\* unlock request is in flight
LockSettled ==
  /\ has(fsRooms, RC)
  /\ fsRooms[RC].doc.locked
  /\ HasRoom => Room.locked
  /\ \A i \in 1..MaxPending : pending[i].op \notin {"lock", "unlock"}

\* the requests waiting in getRoom have read this room (not an earlier room
\* that had the same code)
ReadsOfThisRoom ==
  \A i \in 1..MaxPending :
    (pending[i].op # "idle" /\ pending[i].stage = 0)
    => pending[i].room.hostId = fsRooms[RC].doc.hostId

\* C9: between a completed lock and the next unlock no join is accepted: a
\* step that starts with the room locked, and with no lock or unlock in
\* flight, adds no participant to the room (in the store or in the cache) and
\* no element to turnOrder.
C9_NoJoinWhileLocked ==
  [][(/\ LockSettled
      /\ ReadsOfThisRoom
      /\ has(fsRooms', RC)
      /\ fsRooms'[RC].doc.hostId = fsRooms[RC].doc.hostId) =>
       /\ fsRooms'[RC].participants \subseteq fsRooms[RC].participants
       /\ Range(fsRooms'[RC].doc.turnOrder) \subseteq Range(fsRooms[RC].doc.turnOrder)
       /\ SameRoom => DOMAIN memoryRooms'[RC].participants \subseteq DOMAIN Room.participants
    ]_vars

\* the outcome of remove-participant of X by the host that the spec describes
RemoveOutcome(X) ==
  IF X \in DOMAIN Room.participants
  THEN LET NotX(id) == id # X
           new == memoryRooms'[RC]
       IN /\ lastRes' = 200
          /\ X \notin DOMAIN new.participants
          /\ ~includes(new.turnOrder, X)
          /\ new.turnOrder = SelectSeq(Room.turnOrder, NotX)
          /\ DOMAIN new.participants = DOMAIN Room.participants \ {X}
          /\ \A p \in DOMAIN new.participants : new.participants[p] = Room.participants[p]
          /\ new.currentTurn =
               IF Room.currentTurn = X
               THEN (IF new.turnOrder = <<>> THEN NULL ELSE new.turnOrder[1])
               ELSE Room.currentTurn
          /\ new.status = Room.status
          /\ new.currentRound = Room.currentRound
  ELSE lastRes' = 404 /\ memoryRooms' = memoryRooms

\* C10: in every reachable state a remove-participant of X by the host has no
\* other outcome than this one: when X is a participant, 200, X in neither
\* participants nor turnOrder, the other entries of turnOrder in their order,
\* the other participants as they were, and currentTurn on the head of the
\* new turnOrder (null when it is empty) when X held the turn and unchanged
\* otherwise; when X is no participant, 404 and nothing changed.
C10_RemoveSemantics ==
  HasRoom =>
    \A X \in ReqIds :
      ~ENABLED (RemoveParticipant(CODE, Room.hostId, X, SEQ) /\ ~RemoveOutcome(X))

\* C10 witness: ids 2 and 3 joined the room of host 1 and 2 has been removed
\* while the debate was running: the turn is on the participant who is left.
C10_Witness ==
  /\ HasRoom
  /\ Room.hostId = 1
  /\ lastRes = 200
  /\ Room.status = COLLECTING
  /\ Room.turnOrder = <<3>>
  /\ Room.currentTurn = 3
  /\ DOMAIN Room.participants = {3}
  /\ uuidCount = 3

\* the request is refused and the cache is as it was
Refused == lastRes' # 200 /\ memoryRooms' = memoryRooms

\* C11: start, next-turn, assign-turn and end are host-authorized: such a
\* request that does not present the room's host secret (the requests of the
\* model present none, and the four handlers read none) is refused with an
\* error and leaves the room unchanged.
C11_TransitionsHostAuthorized ==
  HasRoom =>
    /\ ~ENABLED (Start(CODE, SEQ) /\ ~Refused)
    /\ ~ENABLED (NextTurn(CODE, SEQ) /\ ~Refused)
    /\ \A participantId \in ReqIds : ~ENABLED (AssignTurn(CODE, participantId, SEQ) /\ ~Refused)
    /\ ~ENABLED (End(CODE, SEQ) /\ ~Refused)

\* the request is refused with 403 and the cache is as it was
Unauthorized == lastRes' = 403 /\ memoryRooms' = memoryRooms

\* the secrets that are not the room's host secret: none at all (NoId), or
\* any other id handed out (a participant's id, the host id of another room)
WrongSecrets == ReqIds \ {Room.hostId}

\* C12: in every reachable state lock, unlock and remove-participant called
\* with a secret that is not the room's host secret, or with none, have no
\* outcome other than a 403 that leaves the room (locked, participants,
\* turnOrder and currentTurn included) unchanged.
C12_HostOnlyRejectsWrongSecret ==
  HasRoom =>
    \A hostId \in WrongSecrets :
      /\ \A lock \in BOOLEAN : ~ENABLED (Lock(CODE, hostId, lock, SEQ) /\ ~Unauthorized)
      /\ \A X \in ReqIds : ~ENABLED (RemoveParticipant(CODE, hostId, X, SEQ) /\ ~Unauthorized)

\* C12 witness: a debate in progress with two participants in a room that
\* is not locked, and the last request was refused with 403 (join answers
\* 403 only for a locked room, so the request was a lock, unlock or
\* remove-participant with a wrong secret).
C12_Witness ==
  /\ HasRoom
  /\ lastRes = 403
  /\ ~Room.locked
  /\ Room.status = COLLECTING
  /\ Len(Room.turnOrder) = 2
  /\ DOMAIN Room.participants = Range(Room.turnOrder)
  /\ Room.currentTurn = Room.turnOrder[1]

\* C13: create never replaces or alters an existing room: in every reachable
\* state in which the room exists, no create leaves the cache with another
\* room under its code.
C13_CreateKeepsExistingRooms ==
  HasRoom => ~ENABLED (CreateRoom(TRUE, SEQ) /\ memoryRooms'[RC] # Room)


\* the end request in slot i has passed `await fbSaveReport(...)`: the report
\* snapshot computed by this end is in the store
ReportSaved(i) == pending[i].op = "end" /\ pending[i].stage >= 2

\* the step completes the end request in slot i (its response is sent)
EndCompletes(i) ==
  /\ pending[i].op = "end"
  /\ pending[i].stage = 3
  /\ pending'[i].op = "idle"

\* C14: with the store configured, status becomes results only in a step of
\* an end request whose report snapshot has been written, and when an end
\* request completes the room has status = results and currentTurn = null.
C14_EndOrder ==
  [][/\ (SameRoom /\ Room.status # RESULTS /\ memoryRooms'[RC].status = RESULTS)
          => \E i \in 1..MaxPending : ReportSaved(i)
     /\ \A i \in 1..MaxPending :
          (EndCompletes(i) /\ has(memoryRooms', RC))
          => (memoryRooms'[RC].status = RESULTS /\ memoryRooms'[RC].currentTurn = NULL)
    ]_vars


\* C17: for every mode and every ScoreSet with dimensions in [1,10] the value
\* calculateFinalScore returns lies in [1,10] and is a whole number of
\* tenths; a mode that names no weight vector gives what debate gives.
C17_FinalScoreRange ==
  retFinalScore # NULL =>
    /\ retFinalScore >= Num(1)
    /\ retFinalScore <= Num(10)
    /\ retFinalScore % (Scale \div 10) = 0
    /\ argMode \notin VALID_MODES => retFinalScore = calculateFinalScore(argScores, "debate")

\* the ScoreSets that differ from argScores in dimension f only, by a value
\* that is not smaller
Raised(f) == {[argScores EXCEPT ![f] = v] : v \in {x \in ScoreValues : x >= argScores[f]}}

\* C18: for every mode, with the other three dimensions fixed, raising logic,
\* clarity or relevance never lowers the value calculateFinalScore returns,
\* and raising emotionalBias never raises it.
C18_FinalScoreMonotonic ==
  retFinalScore # NULL =>
    /\ \A f \in {"logic", "clarity", "relevance"} :
         \A higher \in Raised(f) : calculateFinalScore(higher, argMode) >= retFinalScore
    /\ \A higher \in Raised("emotionalBias") :
         calculateFinalScore(higher, argMode) <= retFinalScore

\* C18 witness: logic 6, clarity 7, relevance 8, emotionalBias 4 in debate
\* mode has been scored 6.8 (2.1 + 1.4 + 2.4 + 0.9).
C18_Witness ==
  /\ argMode = "debate"
  /\ argScores = ScoreSet(Num(6), Num(7), Num(8), Num(4))
  /\ retFinalScore = 68 * (Scale \div 10)

\* C19: each of the four mode weight vectors (debate, classroom, panel,
\* meeting) has weights of logic, clarity, relevance and emotionalBias that
\* sum to 1.0 (100 hundredths): whichever of the four modes a call names, the
\* vector it looks up does.
C19_WeightsSumToOne ==
  argMode \in VALID_MODES =>
    /\ argMode \in DOMAIN MODE_WEIGHTS
    /\ MODE_WEIGHTS[argMode].logic + MODE_WEIGHTS[argMode].clarity
         + MODE_WEIGHTS[argMode].relevance + MODE_WEIGHTS[argMode].emotionalBias = 100

\* C19 witness: a ScoreSet whose dimensions, emotionalBias inverted, all
\* equal 7 has been scored with the meeting weights, and the score is 7.0.
C19_Witness ==
  /\ argMode = "meeting"
  /\ argScores = ScoreSet(Num(7), Num(7), Num(7), Num(3))
  /\ retFinalScore = Num(7)

\* the results of the response of end
results == endResponse.results

\* the index of the entry with this id in a sequence of entries
IndexOf(entries, id) == CHOOSE i \in 1..Len(entries) : entries[i].id = id
\* the index of an id in a sequence of ids
PlaceOf(ids, id) == CHOOSE i \in 1..Len(ids) : ids[i] = id

\* what C15 says of the results apart from the order of ties: every
\* participant once, scores non-increasing, rank = position
RankedOnce ==
  /\ Len(results) = Len(argRoom.participants)
  /\ \A i \in 1..Len(argRoom.participants) :
       Cardinality({j \in 1..Len(results) : results[j].id = argRoom.participants[i].id}) = 1
  /\ \A i, j \in 1..Len(results) :
       i < j => results[i].averageScore >= results[j].averageScore
  /\ \A i \in 1..Len(results) : results[i].rank = i

\* C15 as stated: the results of end list every participant of the room
\* exactly once, by weighted score non-increasing, with rank equal to the
\* 1-based position, and participants with equal weighted score appear in the
\* order in which they joined.
C15_ResultsRankedTiesByJoinOrder ==
  endResponse.sent =>
    /\ RankedOnce
    /\ \A i, j \in 1..Len(results) :
         (i < j /\ results[i].averageScore = results[j].averageScore)
           => PlaceOf(joined, results[i].id) < PlaceOf(joined, results[j].id)

\* C15 amended: the results of end list every participant of the room exactly
\* once, by weighted score non-increasing, with rank equal to the 1-based
\* position, and participants with equal weighted score appear in the
\* iteration order of room.participants (the join order for a room that was
\* never read back from the store).
C15_ResultsRankedTiesByIterationOrder ==
  endResponse.sent =>
    /\ RankedOnce
    /\ \A i, j \in 1..Len(results) :
         (i < j /\ results[i].averageScore = results[j].averageScore)
           => IndexOf(argRoom.participants, results[i].id)
                < IndexOf(argRoom.participants, results[j].id)

\* C15 witness: a classroom room read back from the store with the first and
\* the last participant exchanged; the one who joined first and the one who
\* joined last have the same response, the second a better one: the results
\* rank the second first and then the tied two, the last joiner before the
\* first.
C15_Witness ==
  /\ endResponse.sent
  /\ argRoom.mode = "classroom"
  /\ Len(joined) = 3
  /\ [i \in 1..3 |-> argRoom.participants[i].id] = <<3, 2, 1>>
  /\ argRoom.participants[1].responses = <<Response(8, 6, 7, 3)>>
  /\ argRoom.participants[2].responses = <<Response(6, 8, 7, 3)>>
  /\ argRoom.participants[3].responses = <<Response(8, 6, 7, 3)>>
  /\ [i \in 1..3 |-> results[i].id] = <<2, 3, 1>>
  /\ [i \in 1..3 |-> results[i].averageScore] = <<72 * (Scale \div 10), 69 * (Scale \div 10), 69 * (Scale \div 10)>>

\* the participants of the room have no response between them
NoSubmissions ==
  \A i \in 1..Len(argRoom.participants) : Len(argRoom.participants[i].responses) = 0

\* C16: every participant with zero responses is reported by end as silent
\* with weighted score 0 and raw average 0; for a room with 0 submissions
\* every participant is reported silent and the balance score analytics
\* computes is 0.
C16_ZeroResponsesSilentAndZero ==
  /\ endResponse.sent =>
       \A i \in 1..Len(argRoom.participants) :
         Len(argRoom.participants[i].responses) = 0 =>
           \A j \in 1..Len(results) :
             results[j].id = argRoom.participants[i].id =>
               /\ results[j].participationStatus = "silent"
               /\ results[j].totalResponses = 0
               /\ results[j].averageScore = 0
               /\ results[j].rawAverageScore = 0
  /\ (endResponse.sent /\ NoSubmissions) =>
       /\ Len(results) = Len(argRoom.participants)
       /\ \A j \in 1..Len(results) : results[j].participationStatus = "silent"
  /\ (balanceScore # NULL /\ NoSubmissions) => balanceScore = 0

\* C16 witness: end and analytics have answered for a room of three
\* participants without a response: three silent entries scored 0, balance 0.
C16_Witness ==
  /\ endResponse.sent
  /\ balanceScore = 0
  /\ Len(argRoom.participants) = 3
  /\ NoSubmissions
  /\ Len(results) = 3
  /\ \A j \in 1..3 : /\ results[j].participationStatus = "silent"
                     /\ results[j].averageScore = 0
                     /\ results[j].rawAverageScore = 0

\* C20: in every interview session, once 8 interviewer questions have been
\* recorded the status is complete, and no 9th question is ever recorded:
\* questionCount never exceeds 8, whatever start and respond requests were
\* made, overlapping ones on the same session included.
C20_AtMostEightQuestions ==
  \A sessionId \in DOMAIN interviewSessions :
    /\ interviewSessions[sessionId].questionCount <= MAX_QUESTIONS
    /\ interviewSessions[sessionId].questionCount >= MAX_QUESTIONS
         => interviewSessions[sessionId].status = "complete"

\* C21: a respond with an answer on a session whose status is complete is
\* accepted for the transcript: the answer is appended to fullTranscript, no
\* question is recorded and questionCount is unchanged.
C21_CompleteSessionRecordsAnswer ==
  \A sessionId \in DOMAIN interviewSessions :
    interviewSessions[sessionId].status = "complete" =>
      ~ENABLED (/\ InterviewRespond(sessionId, TRUE)
                /\ ~(/\ interviewSessions'[sessionId].fullTranscript
                          = Append(interviewSessions[sessionId].fullTranscript,
                                   Message(interviewSessions[sessionId], "user"))
                     /\ interviewSessions'[sessionId].questionCount
                          = interviewSessions[sessionId].questionCount))

\* the session the model creates
SID == 1
HasSession == SID \in DOMAIN interviewSessions
Session == interviewSessions[SID]

\* s is the sequence t without some of its entries, the others in their order
RECURSIVE IsSubsequence(_, _)
IsSubsequence(s, t) ==
  IF s = <<>> THEN TRUE
  ELSE IF t = <<>> THEN FALSE
  ELSE IF Head(s) = Head(t) THEN IsSubsequence(Tail(s), Tail(t))
  ELSE IsSubsequence(s, Tail(t))

\* the entries of a sequence of messages with this role
OfRole(arr, role) == {i \in 1..Len(arr) : arr[i].role = role}

\* C22: fullTranscript is append-only and never trimmed. Every step leaves
\* the messages recorded so far in it, in their order; whatever
\* summarization passes occurred it holds every question and every answer
\* recorded (its length is questionCount + the number of answers recorded,
\* 2N after N questions and N answers), and the messages buffer holds nothing
\* the transcript has not.
C22_TranscriptAppendOnly ==
  /\ [](HasSession =>
          /\ Len(Session.fullTranscript) = Session.questionCount + answersRecorded
          /\ Cardinality(OfRole(Session.fullTranscript, "assistant")) = Session.questionCount
          /\ Cardinality(OfRole(Session.fullTranscript, "user")) = answersRecorded
          /\ \A i \in 1..Len(Session.fullTranscript) :
               Session.fullTranscript[i].content = ToString(i)
          /\ IsSubsequence(Session.messages, Session.fullTranscript))
  /\ [][HasSession =>
          /\ SID \in DOMAIN interviewSessions'
          /\ Len(interviewSessions'[SID].fullTranscript) >= Len(Session.fullTranscript)
          /\ SubSeq(interviewSessions'[SID].fullTranscript, 1, Len(Session.fullTranscript))
               = Session.fullTranscript]_vars

\* C22 witness: five questions and five answers are on record, ten messages
\* in the transcript, after a summarization pass that cut the messages buffer
\* down to six.
C22_Witness ==
  /\ HasSession
  /\ Session.conversationSummary # ""
  /\ Session.questionCount = 5
  /\ answersRecorded = 5
  /\ Len(Session.fullTranscript) = 10
  /\ Len(Session.messages) = 6

\* the two messages buildMessagePayload makes up
SystemPrompt == [role |-> "system", content |-> "systemPrompt"]
SummaryMessage == [role |-> "system", content |-> "CONVERSATION SUMMARY"]

Quiet == \A i \in 1..MaxPending : pending[i].op = "idle"

\* the room getRoom would build from the store on a cache miss equals the
\* cached room, for some order in which the store returns the arguments
StoreRebuilds(room, fs) ==
  /\ has(fs, RC)
  /\ \E perm \in Perms(Len(fs[RC].arguments)) :
       LET stored == fbGetRoom(fs, RC, perm)
       IN /\ DOMAIN stored.participants = DOMAIN room.participants
          /\ \A p \in DOMAIN room.participants :
               stored.participants[p].responses = room.participants[p].responses
          /\ stored.turnOrder = room.turnOrder
          /\ stored.currentTurn = room.currentTurn
          /\ stored.currentRound = room.currentRound
          /\ stored.status = room.status
          /\ stored.locked = room.locked
          /\ stored.raisedHands = room.raisedHands

\* C24: with the store configured and every write succeeding, once the
\* writes of the accepted operations have completed the room rebuilt from
\* the store on a cache miss equals the cached room in participants,
\* turnOrder, currentTurn, currentRound, status, locked, raisedHands and each
\* participant's responses.
C24_StoreEqualsCache ==
  (HasRoom /\ Quiet) => StoreRebuilds(Room, fsRooms)


\* the outcome of an accepted create: a new room in the cache under the code
\* drawn, with a new host id
CreateOutcome ==
  /\ lastRes' = 200
  /\ has(memoryRooms', RC)
  /\ memoryRooms'[RC] = newRoomData(uuidCount + 1)

\* the outcome of an accepted submit of the turn holder whose transcription
\* returns: one response more in the holder's list
SubmitOutcome(X) ==
  submitCheck(memoryRooms, RC, X, TRUE) = 0 =>
    /\ lastRes' = 200
    /\ Len(memoryRooms'[RC].participants[X].responses)
         = Len(Room.participants[X].responses) + 1

\* the outcome of end: the report is computed and the room is in results
EndOutcome ==
  /\ lastRes' = 200
  /\ memoryRooms'[RC] = [Room EXCEPT !.status = RESULTS, !.currentTurn = NULL]

\* the operations of a room have the outcome in the cache that the handler
\* computes, whether the writes to the store land (STORED) or fail (FAILED)
ReflectedInCache(m) ==
  /\ ~ENABLED (Join(CODE, TRUE, m) /\ ~JoinOutcome)
  /\ ~ENABLED (Start(CODE, m) /\ ~StartOutcome)
  /\ ~ENABLED (NextTurn(CODE, m) /\ ~NextTurnOutcome)
  /\ \A X \in ReqIds :
       /\ ~ENABLED (RemoveParticipant(CODE, Room.hostId, X, m) /\ ~RemoveOutcome(X))
       /\ ~ENABLED (Submit(CODE, X, TRUE, TRUE, m) /\ ~SubmitOutcome(X))
  /\ ~ENABLED (End(CODE, m) /\ ~EndOutcome)

\* C25: with the store configured, in every reachable state, a create, join,
\* remove-participant, start, next-turn, submit or end is accepted and has in
\* the cache the same outcome, the one the handler computes from the cache,
\* whether its writes to the store land or fail.
C25_CacheIndependentOfStore ==
  /\ USE_FIRESTORE
  /\ \A m \in {STORED, FAILED} :
       /\ ~ENABLED (CreateRoom(TRUE, m) /\ ~CreateOutcome)
       /\ HasRoom => ReflectedInCache(m)

\* C25 witness: the writes of start failed and the start was accepted: the
\* room is collecting in the cache and still waiting in the store.
C25_Witness ==
  /\ HasRoom
  /\ lastRes = 200
  /\ Room.status = COLLECTING
  /\ has(fsRooms, RC)
  /\ fsRooms[RC].doc.status = WAITING
  /\ fsRooms[RC].doc.hostId = Room.hostId


\* no interview request is in flight
InterviewQuiet ==
  \A i \in 1..MaxInterviewPending : interviewPending[i].stage = "idle"

\* C26: an interview respond whose question generation failed has left the
\* session as it was before the request: once the error is sent and no
\* request is in flight, the transcript of an active session does not end
\* with an answer that no question follows.
C26_FailedRespondLeavesSession ==
  (HasSession /\ InterviewQuiet /\ interviewRes = "error"
   /\ Session.status = "active" /\ Session.fullTranscript # <<>>) =>
    Session.fullTranscript[Len(Session.fullTranscript)].role = "assistant"


\* C27: a failure of the question-generation collaborator does not fail the
\* request: every step in which the stream of a start or a respond throws
\* records a next interviewer question (a substituted one) and increments
\* questionCount.
C27_FailedGenerationMasked ==
  [][\A i \in 1..MaxInterviewPending :
       (interviewPending[i].stage \in {"start_stream", "stream"}
        /\ InterviewResume(i, FALSE)) =>
         LET sessionId == interviewPending[i].sessionId
             old == interviewSessions[sessionId]
             new == interviewSessions'[sessionId]
         IN /\ interviewRes' = "question"
            /\ new.questionCount = old.questionCount + 1
            /\ Len(new.fullTranscript) = Len(old.fullTranscript) + 1
            /\ new.fullTranscript[Len(new.fullTranscript)].role = "assistant"]_vars


\* the step is the end of a handler that was waiting in getRoom and that
\* rejects its request (not found, unauthorized, conflict or validation)
RejectedAfterFetch(i) ==
  /\ ResumeFetch(i)
  /\ Cardinality(Free(pending')) > Cardinality(Free(pending))
  /\ lastRes' \in {400, 403, 404}

\* C28: a rejected room operation leaves the state of every room unchanged:
\* every step in which a handler rejects its request leaves each room of the
\* cache as it was (the room the handler read: a room created since under the
\* same code is left aside).
C28_RejectedLeavesRooms ==
  [][\A i \in 1..MaxPending :
       RejectedAfterFetch(i) =>
         \A roomCode \in DOMAIN memoryRooms :
           pending[i].room.hostId = memoryRooms[roomCode].hostId =>
             /\ has(memoryRooms', roomCode)
             /\ memoryRooms'[roomCode] = memoryRooms[roomCode]]_vars


\* the outcome of assign-turn to X the spec describes
AssignTurnOutcome(X) ==
  IF Room.status = COLLECTING /\ X \in DOMAIN Room.participants
  THEN LET new == memoryRooms'[RC]
       IN /\ lastRes' = 200
          /\ DOMAIN memoryRooms' = DOMAIN memoryRooms
          /\ new.currentTurn = X
          /\ new.currentRound = Room.currentRound
          /\ new.turnOrder = Room.turnOrder
          /\ new.participants = Room.participants
          /\ new.status = Room.status
  ELSE lastRes' \in {400, 404} /\ memoryRooms' = memoryRooms

\* C29: in every reachable state an assign-turn to X has no other outcome
\* than this one: when the room is collecting and X is one of its
\* participants, 200, currentTurn = X, and currentRound, turnOrder,
\* participants and status as they were; otherwise it is rejected and nothing
\* changes.
C29_AssignTurnSemantics ==
  HasRoom => \A X \in ReqIds : ~ENABLED (AssignTurn(CODE, X, SEQ) /\ ~AssignTurnOutcome(X))

\* C29 witness: the second participant has answered and the turn has been
\* set since, to the first, still in round 1 (a next-turn from the second
\* would have wrapped into round 2).
C29_Witness ==
  /\ HasRoom
  /\ lastRes = 200
  /\ Room.status = COLLECTING
  /\ Len(Room.turnOrder) = 2
  /\ Room.currentTurn = Room.turnOrder[1]
  /\ Room.currentRound = 1
  /\ TotalResponses(Room) = 1
  /\ Len(Room.participants[Room.turnOrder[2]].responses) = 1
  /\ turnSubmits = 0


\* the raised hands after a step that sets the turn: the new holder's hand
\* is down, the other hands are as they were, in their order
HandsOutcome ==
  lastRes' = 200 =>
    LET new == memoryRooms'[RC]
        NotHolder(id) == id # new.currentTurn
    IN /\ ~includes(new.raisedHands, new.currentTurn)
       /\ new.raisedHands = SelectSeq(Room.raisedHands, NotHolder)

\* C30: in every reachable state, a next-turn or an assign-turn that is
\* accepted leaves the participant who then holds currentTurn out of
\* raisedHands and the raised-hand entries of all other participants as they
\* were.
C30_TurnHolderHandLowered ==
  HasRoom =>
    /\ ~ENABLED (NextTurn(CODE, SEQ) /\ ~HandsOutcome)
    /\ \A X \in ReqIds : ~ENABLED (AssignTurn(CODE, X, SEQ) /\ ~HandsOutcome)

\* C30 witness: the turn has passed to the second participant and the hand
\* the first raised is still up.
C30_Witness ==
  /\ HasRoom
  /\ lastRes = 200
  /\ Room.status = COLLECTING
  /\ Len(Room.turnOrder) = 2
  /\ Room.currentTurn = Room.turnOrder[2]
  /\ Room.raisedHands = <<Room.turnOrder[1]>>


\* a sequence without a repeated entry
NoDuplicates(arr) == \A i, j \in 1..Len(arr) : arr[i] = arr[j] => i = j

\* the outcome of raise-hand of X the spec describes: rejected, changing
\* nothing, unless the room is collecting; no change when the hand is up;
\* otherwise X is added once
RaiseHandOutcome(X) ==
  IF Room.status # COLLECTING
  THEN lastRes' = 400 /\ memoryRooms' = memoryRooms
  ELSE /\ lastRes' = 200
       /\ memoryRooms' = [memoryRooms EXCEPT ![RC].raisedHands =
            IF includes(@, X) THEN @ ELSE Append(@, X)]

\* the outcome of lower-hand of X: no change when the hand is not up,
\* otherwise X is taken out and the other hands keep their order
LowerHandOutcome(X) ==
  LET NotX(id) == id # X
  IN /\ lastRes' = 200
     /\ memoryRooms' = [memoryRooms EXCEPT ![RC].raisedHands =
          IF includes(@, X) THEN SelectSeq(@, NotX) ELSE @]

OlderThanLastSix(arr) == SubSeq(arr, 1, Len(arr) - 6)

\* the step records an answer of the session and leaves more than six
\* messages in its raw buffer
AnswerOverflows ==
  /\ HasSession
  /\ answersRecorded' = answersRecorded + 1
  /\ Len(interviewSessions'[SID].messages) > 6

\* handler i asks for a summarization in this step: over the messages older
\* than the last six and the summary stored
RequestsSummary(i) ==
  /\ interviewPending[i].stage = "transcribe"
  /\ interviewPending'[i].stage = "summarize"
  /\ interviewPending'[i].payload =
       [summary  |-> interviewSessions'[SID].conversationSummary,
        messages |-> OlderThanLastSix(interviewSessions'[SID].messages)]

\* handler i goes on after its summarization call in this step
SummaryReturns(i) ==
  /\ interviewPending[i].stage = "summarize"
  /\ interviewPending'[i].stage # "summarize"

C33_TranscriptAlternates ==
  HasSession =>
    \A n \in 1..Len(Session.fullTranscript) :
      Session.fullTranscript[n].role = (IF n % 2 = 1 THEN "assistant" ELSE "user")


\* SpecInterviewSeq: the interview API with one request at a time: a start
\* or a respond arrives when no interview handler is waiting; every outcome
\* of the collaborator calls.
NextInterviewSeq ==
  \/ InterviewQuiet /\ \E roleOk \in BOOLEAN : InterviewStart(roleOk)
  \/ InterviewQuiet /\ \E sessionId \in SessionIds \cup {NoId}, hasFile \in BOOLEAN :
       InterviewRespond(sessionId, hasFile)
  \/ \E i \in 1..MaxInterviewPending, aiOk \in BOOLEAN : InterviewResume(i, aiOk)

SpecInterviewSeq == InitInterview /\ [][NextInterviewSeq]_vars

\* C34: in every reachable session state status = complete if and only if
\* questionCount >= 8, and questionCount is the number of interviewer
\* messages in fullTranscript; complete is terminal: no step takes a
\* complete session back to active.
C34_CompleteIffEightQuestions ==
  /\ [](HasSession =>
          /\ (Session.status = "complete") <=> (Session.questionCount >= MAX_QUESTIONS)
          /\ Session.status \in {"active", "complete"}
          /\ Session.questionCount
               = Cardinality(OfRole(Session.fullTranscript, "assistant")))
  /\ [][(HasSession /\ Session.status = "complete") =>
          (SID \in DOMAIN interviewSessions'
           /\ interviewSessions'[SID].status = "complete")]_vars

\* C34 witness: the eighth question has closed a session held with an AI
\* key, and a respond sent after that was turned away.
C34_Witness ==
  /\ HasSession
  /\ ~USE_MOCK_AI
  /\ Session.status = "complete"
  /\ Session.questionCount = MAX_QUESTIONS
  /\ interviewRes = "already complete"


\* C35: a Response is appended to participant P only if, at the moment it
\* is appended, the room is collecting and currentTurn = P, also when other
\* requests are processed while the submit waits on transcription or
\* evaluation.
C35_AppendOnlyToTurnHolder ==
  [][SameRoom =>
       \A P \in DOMAIN Room.participants \cap DOMAIN memoryRooms'[RC].participants :
          Len(memoryRooms'[RC].participants[P].responses) > Len(Room.participants[P].responses)
            => (Room.status = "collecting" /\ Room.currentTurn = P)]_vars


\* C36: in every reachable room state, also under interleaved requests with
\* the store configured, status # collecting implies currentTurn = null: a
\* next-turn, assign-turn or start that overlaps an end never leaves a turn
\* holder set in an evaluating or results room.
\* (Stated for the evaluating and results rooms the claim names; a waiting
\* room has had no turn holder unless its code was drawn again, C13.)
C36_NoTurnOutsideCollecting ==
  (HasRoom /\ Room.status \in {EVALUATING, RESULTS}) => Room.currentTurn = NULL


\* SpecReload: one room is created, with the store modelled: join and
\* remove-participant, restarts of the process, and the reload of the room
\* from the store by the next request.
NextReload ==
  \/ fsRooms = <<>> /\ CreateRoom(TRUE, COLD)
  \/ Join("abc234", TRUE, COLD)
  \/ \E hostId \in HostIds("abc234"), participantId \in ReqIds :
       RemoveParticipant("abc234", hostId, participantId, COLD)
  \/ Restart
  \/ \E i \in 1..MaxPending : ResumeFetch(i)

SpecReload == InitAsync /\ [][NextReload]_vars

\* ids are handed out by a counter, so join order is ascending id order
InJoinOrder(arr) == \A i, j \in 1..Len(arr) : i < j => arr[i] < arr[j]

\* C37: in every reachable in-memory room state turnOrder contains no
\* duplicate id, the set of ids in turnOrder equals the key set of
\* participants, and turnOrder lists the remaining participants in join order.
C37_TurnOrderIsParticipants ==
  HasRoom =>
    /\ NoDuplicates(Room.turnOrder)
    /\ Range(Room.turnOrder) = DOMAIN Room.participants
    /\ InJoinOrder(Room.turnOrder)


\* C38: raisedHands only ever contains ids of current participants of the
\* room: raise-hand adds only an id that is a participant, and after
\* remove-participant of X, X is not in raisedHands.
C38_HandsAreParticipants ==
  HasRoom => Range(Room.raisedHands) \subseteq DOMAIN Room.participants


\* message n of fullTranscript is covered by the stored summary: the summary
\* is the one made for a payload that ends with message n or a later one
CoveredBySummary(n) ==
  \E m \in n..Len(Session.fullTranscript) :
     Session.fullTranscript[m].content = Session.conversationSummary

\* C39: also when respond requests for the same session overlap, every
\* fullTranscript message is at all times either in the raw buffer or
\* covered by the summary that has been applied: no message leaves the raw
\* buffer unless it was in the summarization request whose result is stored.
C39_NoMessageLost ==
  HasSession =>
    \A n \in 1..Len(Session.fullTranscript) :
       \/ Session.fullTranscript[n] \in Range(Session.messages)
       \/ CoveredBySummary(n)


\* SpecEndFair: one room with the store configured and an AI key: joins,
\* start, submits and end requests, every handler suspended at its awaits;
\* each store write of end reaches the store (COLD) or fails (WARM: the
\* store is left as it was). A suspended end handler is resumed when its
\* awaited call settles: firebase.js resolves every call, with false after
\* an error, so the continuation is always eventually run.
EndOutcomes == {WARM, COLD}

NextEnd ==
  \/ memoryRooms = <<>> /\ CreateRoom(TRUE, COLD)
  \/ Join("abc234", TRUE, COLD)
  \/ Start("abc234", COLD)
  \/ \E participantId \in ReqIds : Submit("abc234", participantId, TRUE, TRUE, COLD)
  \/ \E m \in EndOutcomes : End("abc234", m)
  \/ \E i \in 1..MaxPending : ResumeUpdate(i)
  \/ \E i \in 1..MaxPending, aiOk \in BOOLEAN : ResumeSubmit(i, aiOk, COLD)
  \/ \E i \in 1..MaxPending, m \in EndOutcomes : ResumeEnd(i, m)

SpecEndFair ==
  /\ InitAsync
  /\ [][NextEnd]_vars
  /\ \A i \in 1..MaxPending : WF_vars(\E m \in EndOutcomes : ResumeEnd(i, m))

\* C40: once end has been accepted for an existing room, the room
\* eventually reaches status results and does not remain in evaluating
\* forever, whatever the outcome of the store writes and whatever the
\* participants' response counts, the handler being scheduled fairly.
C40_EndReachesResults ==
  (\/ \E i \in 1..MaxPending : pending[i].op = "end"
   \/ HasRoom /\ Room.status = EVALUATING)
    ~> (HasRoom /\ Room.status = RESULTS)

\* C40 witness: end has completed for a room in which a participant has
\* answered and another has not, and its writes did not reach the store:
\* the room has results in the cache and is still collecting in the store.
C40_Witness ==
  /\ HasRoom
  /\ Room.status = RESULTS
  /\ lastRes = 200
  /\ \A i \in 1..MaxPending : pending[i].op = "idle"
  /\ \E p, q \in DOMAIN Room.participants :
        Len(Room.participants[p].responses) > 0 /\ Len(Room.participants[q].responses) = 0
  /\ fsRooms[RC].doc.status = COLLECTING

====
